---- MODULE Spec2Model ----
(***************************************************************************)
(* Research aggregation pipeline of the ProofPilot agent hub backend:      *)
(* keyword gap (workflows/keyword_gap.py), competitor discovery,           *)
(* profiling, traffic backfill, pillar classification and market leader    *)
(* selection (workflows/prospect_audit.py) over the DataForSEO and Search  *)
(* Atlas adapters (utils/dataforseo.py, utils/searchatlas.py).             *)
(*                                                                         *)
(* Python text is modelled as a sequence of one-character strings, so that *)
(* lower(), strip(), replace() and the substring test `in` are computed    *)
(* and not assumed.  A dict is a record; a key that is absent or None is   *)
(* a field that is not in the record's DOMAIN.  A dict used as an ordered  *)
(* map (insertion order) is a sequence of entries.                         *)
(***************************************************************************)
EXTENDS Integers, Sequences, FiniteSets, TLC

VARIABLES
    pc,                       \* position of the modelled function or workflow
    client_keywords,          \* _compute_keyword_gap: the client's ranked keywords
    competitor_keyword_sets,  \* _compute_keyword_gap: <<domain, keyword list>> pairs
    gap_keywords,             \* _compute_keyword_gap: the returned list
    volumes,                  \* _build_keyword_pillar_table: the keyword volume records
    service,                  \* _build_keyword_pillar_table: the free-text service
    buckets,                  \* _build_keyword_pillar_table: pillar name -> records
    dfs_login,                \* whether the DATAFORSEO_LOGIN credential is set
    metro_cities,             \* _discover_metro_competitors: the locales searched
    city_tasks,               \* _discover_metro_competitors: one _search_city task per locale
    domain_city_map,          \* _discover_metro_competitors: the returned {domain: cities}
    top_kws,                  \* _fill_traffic_estimates: the keyword records passed in
    filled_kws,               \* _fill_traffic_estimates: the keyword records returned
    profile_domains,          \* _profile_competitors: the {domain: cities} map passed in
    fetch_tasks,              \* _profile_competitors: one _fetch_one task per domain
    profiles,                 \* _profile_competitors: the returned list of profiles
    competitor_profiles,      \* run_prospect_audit, phase 3: the profiles of the competitors
    market_leader,            \* run_prospect_audit, phase 3: <<>> for None, else <<profile>>
    workflow_id,              \* run_workflow: the workflow requested
    environ,                  \* os.environ: the names of the credentials that are set
    inputs,                   \* run_workflow: req.inputs
    locals,                   \* the workflow generator's local variables, by name
    calls,                    \* the data-source calls made so far, each with its fate
    output,                   \* run_workflow: the events sent to the browser
    raised,                   \* the origin of an exception leaving the generator, or "none"
    jobs,                     \* the job store: <<>> or <<the job saved under job_id>>
    metro_city,               \* _get_metro_cities: the city argument
    metro_state,              \* _get_metro_cities: the state_abbr argument
    metro_n,                  \* _get_metro_cities: the argument n
    metro_result,             \* _get_metro_cities: the returned list
    raw_url,                  \* the url of a search result item
    domain_once,              \* its competitor domain
    domain_twice,             \* the competitor domain of that domain
    adapter_call,             \* the adapter function called and its arguments
    dfs_response,             \* what the HTTP call of _dfs_post brought
    adapter_result,           \* what the adapter function returned, or Raised
    dfs_requests,             \* the requests the adapter function sent to the provider
    format_input,             \* the structured input of the formatting functions
    first_run,                \* what one run of the formatting functions returned
    second_run,               \* what another run returned for the same input
    ad_kw,                    \* the keyword volume record the report's ad values are about
    ad_report,                \* the annual values the report shows, by place
    sa_key,                   \* server.py: whether SEARCHATLAS_API_KEY is set
    requests,                 \* server.py: the requests being served, by request number
    at,                       \* event_stream: the position of each request's generator
    req_locals,               \* event_stream: each request's local variables
    trace,                    \* the events sent and the store calls made, in order
    db_jobs,                  \* db.py: the rows of the jobs table, by job_id
    docx_files                \* the generated documents, by path: the content they were made of

gapVars == <<client_keywords, competitor_keyword_sets, gap_keywords>>
pillarVars == <<volumes, service, buckets>>
discVars == <<dfs_login, metro_cities, city_tasks, domain_city_map>>
trafVars == <<top_kws, filled_kws>>
profVars == <<profile_domains, fetch_tasks, profiles>>
leaderVars == <<competitor_profiles, market_leader>>
flowVars == <<workflow_id, environ, inputs, locals, calls, output, raised, jobs>>
metroVars == <<metro_city, metro_state, metro_n, metro_result>>
normVars == <<raw_url, domain_once, domain_twice>>
adapterVars == <<adapter_call, dfs_response, adapter_result, dfs_requests>>
formatVars == <<format_input, first_run, second_run>>
adVars == <<ad_kw, ad_report>>
srvVars == <<sa_key, requests, at, req_locals, trace, db_jobs, docx_files>>
vars == <<pc, gapVars, pillarVars, discVars, trafVars, profVars, leaderVars, flowVars, metroVars,
          normVars, adapterVars, formatVars, adVars, srvVars>>

(***************************************************************************)
(* Text                                                                    *)
(***************************************************************************)
UpperLetters == <<"A","B","C","D","E","F","G","H","I","J","K","L","M",
                  "N","O","P","Q","R","S","T","U","V","W","X","Y","Z">>
LowerLetters == <<"a","b","c","d","e","f","g","h","i","j","k","l","m",
                  "n","o","p","q","r","s","t","u","v","w","x","y","z">>
Whitespace == {" ", "\t", "\n", "\r"}

\* str.lower() on one character
LowerChar(c) ==
    IF \E i \in 1..Len(UpperLetters) : UpperLetters[i] = c
    THEN LowerLetters[CHOOSE i \in 1..Len(UpperLetters) : UpperLetters[i] = c]
    ELSE c

\* str.upper() on one character
UpperChar(c) ==
    IF \E i \in 1..Len(LowerLetters) : LowerLetters[i] = c
    THEN UpperLetters[CHOOSE i \in 1..Len(LowerLetters) : LowerLetters[i] = c]
    ELSE c

\* str.isalpha() on one ASCII character
IsLetter(c) == LowerChar(c) # UpperChar(c)

\* str.title(): a letter is upper case after a non-letter, lower case after a letter
Title(s) ==
    [i \in 1..Len(s) |->
        IF i > 1 /\ LowerChar(s[i - 1]) # UpperChar(s[i - 1])
        THEN LowerChar(s[i]) ELSE UpperChar(s[i])]

\* str.lower()
Lower(s) == [i \in 1..Len(s) |-> LowerChar(s[i])]

\* str.strip(): drop leading and trailing whitespace
Strip(s) ==
    LET keep == {i \in 1..Len(s) : s[i] \notin Whitespace}
    IN  IF keep = {} THEN <<>>
        ELSE LET lo == CHOOSE i \in keep : \A j \in keep : i <= j
                 hi == CHOOSE i \in keep : \A j \in keep : j <= i
             IN  SubSeq(s, lo, hi)

\* str.strip(chars): drop leading and trailing characters of the set
StripChars(s, chars) ==
    LET keep == {i \in 1..Len(s) : s[i] \notin chars}
    IN  IF keep = {} THEN <<>>
        ELSE LET lo == CHOOSE i \in keep : \A j \in keep : i <= j
                 hi == CHOOSE i \in keep : \A j \in keep : j <= i
             IN  SubSeq(s, lo, hi)

\* str.startswith(prefix)
StartsWith(s, prefix) == Len(s) >= Len(prefix) /\ SubSeq(s, 1, Len(prefix)) = prefix

\* the substring test `sub in s`
Contains(s, sub) ==
    \E i \in 0..(Len(s) - Len(sub)) : SubSeq(s, i + 1, i + Len(sub)) = sub

\* dict.get(f) is truthy-tested through these: a missing key and None coincide
Has(d, f) == f \in DOMAIN d

\* `d.get(f) or 0`
OrZero(d, f) == IF Has(d, f) THEN d[f] ELSE 0

\* `d.get(f) or ""`
OrEmpty(d, f) == IF Has(d, f) THEN d[f] ELSE <<>>

\* sum of a sequence of numbers
RECURSIVE SeqSum(_)
SeqSum(s) == IF s = <<>> THEN 0 ELSE Head(s) + SeqSum(Tail(s))

\* all sequences over S of length at most n
SeqUpTo(S, n) == UNION {[1..k -> S] : k \in 0..n}

(***************************************************************************)
(* sorted(seq, key=..., reverse=True): a stable sort, descending by key.   *)
(* The list is sorted as <<key, item>> pairs; equal keys keep their        *)
(* original order.                                                         *)
(***************************************************************************)
RECURSIVE InsertDesc(_, _)
InsertDesc(sorted, p) ==
    IF sorted = <<>> THEN <<p>>
    ELSE IF Head(sorted)[1] >= p[1]
         THEN <<Head(sorted)>> \o InsertDesc(Tail(sorted), p)
         ELSE <<p>> \o sorted

RECURSIVE SortDescFrom(_, _)
SortDescFrom(sorted, rest) ==
    IF rest = <<>> THEN sorted
    ELSE SortDescFrom(InsertDesc(sorted, Head(rest)), Tail(rest))

SortedDesc(pairs) ==
    LET r == SortDescFrom(<<>>, pairs) IN [i \in 1..Len(r) |-> r[i][2]]

(***************************************************************************)
(* workflows/keyword_gap.py: _compute_keyword_gap                          *)
(***************************************************************************)
\* the normalisation of a keyword: .lower().strip()
NormTerm(s) == Strip(Lower(s))

\* a plausible slip: the client's keywords are not normalised
ClientKwSetRaw(client) ==
    {client[i].keyword :
        i \in {j \in 1..Len(client) : Has(client[j], "keyword") /\ client[j].keyword # <<>>}}

\* client_kw_set: {kw["keyword"].lower().strip() for kw in client_keywords if kw.get("keyword")}
ClientKwSet(client) ==
    {NormTerm(client[i].keyword) :
        i \in {j \in 1..Len(client) : Has(client[j], "keyword") /\ client[j].keyword # <<>>}}

\* term = (kw.get("keyword") or "").lower().strip()
TermOf(kw) == NormTerm(OrEmpty(kw, "keyword"))

\* `not term or term in client_kw_set`: the record is skipped
Skipped(term, client_kw_set) == term = <<>> \/ term \in client_kw_set

\* index of term in the gap map, 0 when gap.get(term) is None
GapIndex(gap, term) ==
    IF \E i \in 1..Len(gap) : gap[i].keyword = term
    THEN CHOOSE i \in 1..Len(gap) : gap[i].keyword = term
    ELSE 0

\* a plausible slip: every later occurrence overwrites the stored one
ReplacesAlways(gap, term, vol) == TRUE

\* a plausible slip: `vol >= existing`, an equal volume overwrites the stored one
ReplacesOnTie(gap, term, vol) ==
    GapIndex(gap, term) = 0 \/ vol >= gap[GapIndex(gap, term)].search_volume

\* `existing is None or vol > (existing.get("search_volume") or 0)`
Replaces(gap, term, vol) ==
    GapIndex(gap, term) = 0 \/ vol > gap[GapIndex(gap, term)].search_volume

\* the entry stored for one occurrence
GapEntry(term, vol, domain, kw) ==
    [keyword |-> term, search_volume |-> vol,
     traffic_estimate |-> OrZero(kw, "traffic_estimate"),
     top_competitor |-> domain]
    @@ (IF Has(kw, "rank") THEN [rank_at_competitor |-> kw.rank] ELSE <<>>)

\* a plausible slip: a replaced key moves to the end, as `del gap[term]` before
\* the assignment would make it
GapStoreAtEnd(gap, entry) ==
    Append(SelectSeq(gap, LAMBDA e : e.keyword # entry.keyword), entry)

\* gap[term] = {...}: a new key is appended, an existing key keeps its place
GapStore(gap, entry) ==
    IF GapIndex(gap, entry.keyword) = 0 THEN Append(gap, entry)
    ELSE [gap EXCEPT ![GapIndex(gap, entry.keyword)] = entry]

\* one iteration of the inner loop
GapStep(gap, client_kw_set, domain, kw) ==
    LET term == TermOf(kw)
        vol  == OrZero(kw, "search_volume")
    IN  IF Skipped(term, client_kw_set) THEN gap
        ELSE IF Replaces(gap, term, vol)
             THEN GapStore(gap, GapEntry(term, vol, domain, kw))
             ELSE gap

\* `for kw in kw_list`
RECURSIVE GapOverList(_, _, _, _)
GapOverList(gap, client_kw_set, domain, kw_list) ==
    IF kw_list = <<>> THEN gap
    ELSE GapOverList(GapStep(gap, client_kw_set, domain, Head(kw_list)),
                     client_kw_set, domain, Tail(kw_list))

\* `for domain, kw_list in competitor_keyword_sets`
RECURSIVE GapOverSets(_, _, _)
GapOverSets(gap, client_kw_set, sets) ==
    IF sets = <<>> THEN gap
    ELSE GapOverSets(GapOverList(gap, client_kw_set, Head(sets)[1], Head(sets)[2]),
                     client_kw_set, Tail(sets))

\* sorted(gap.values(), key=lambda x: x.get("search_volume") or 0, reverse=True)
ComputeKeywordGap(client, sets) ==
    LET gap == GapOverSets(<<>>, ClientKwSet(client), sets)
    IN  SortedDesc([i \in 1..Len(gap) |-> <<OrZero(gap[i], "search_volume"), gap[i]>>])

(***************************************************************************)
(* workflows/prospect_audit.py: _detect_service_type, _SERVICE_PILLAR_RULES *)
(* and the bucketing loop of _build_keyword_pillar_table                   *)
(***************************************************************************)
\* the ordered `if any(k in s for k in [...]): return category` tests
ServiceTypeKeywords ==
  <<
    <<"plumbing", << <<"p","l","u","m","b">>, <<"p","l","u","m","b","e","r">>, <<"d","r","a","i","n">>,
          <<"s","e","w","e","r">>, <<"w","a","t","e","r"," ","h","e","a","t","e","r">> >> >>,
    <<"electrician", << <<"e","l","e","c","t","r","i","c">>, <<"e","l","e","c","t","r","i","c","i","a","n">>,
          <<"w","i","r","i","n","g">>, <<"p","a","n","e","l">> >> >>,
    <<"hvac", << <<"h","v","a","c">>, <<"a","c"," ","r","e","p","a","i","r">>,
          <<"a","i","r"," ","c","o","n","d","i","t","i","o","n">>,
          <<"h","e","a","t","i","n","g">>, <<"c","o","o","l","i","n","g">>,
          <<"f","u","r","n","a","c","e">>, <<"h","e","a","t"," ","p","u","m","p">> >> >>,
    <<"roofing", << <<"r","o","o","f">>, <<"r","o","o","f","e","r">>, <<"s","h","i","n","g","l","e">>,
          <<"g","u","t","t","e","r">> >> >>,
    <<"auto_detailing", << <<"d","e","t","a","i","l">>, <<"d","e","t","a","i","l","i","n","g">>,
          <<"c","a","r"," ","w","a","s","h">>, <<"a","u","t","o"," ","d","e","t","a","i","l">> >> >>,
    <<"concrete", << <<"c","o","n","c","r","e","t","e">>, <<"c","e","m","e","n","t">>, <<"p","a","v">> >> >>,
    <<"landscaping", << <<"l","a","n","d","s","c","a","p","e">>, <<"l","a","w","n">>,
          <<"g","r","a","s","s">>, <<"t","r","e","e"," ","s","e","r","v","i","c","e">>,
          <<"t","r","e","e"," ","t","r","i","m">> >> >>,
    <<"painting", << <<"p","a","i","n","t">>, <<"p","a","i","n","t","i","n","g">>,
          <<"p","a","i","n","t","e","r">> >> >>,
    <<"cleaning", << <<"c","l","e","a","n">>, <<"c","l","e","a","n","i","n","g">>, <<"m","a","i","d">>,
          <<"j","a","n","i","t","o","r","i","a","l">>,
          <<"p","r","e","s","s","u","r","e"," ","w","a","s","h">> >> >>,
    <<"pest_control", << <<"p","e","s","t">>, <<"e","x","t","e","r","m","i","n","a","t","o","r">>,
          <<"r","o","d","e","n","t">>, <<"t","e","r","m","i","t","e">>, <<"b","u","g">> >> >>
  >>

\* any(sub in s for sub in subs)
AnyContained(s, subs) == \E i \in 1..Len(subs) : Contains(s, subs[i])

DetectServiceType(svc) ==
    LET s == Lower(svc)
        hits == {i \in 1..Len(ServiceTypeKeywords) : AnyContained(s, ServiceTypeKeywords[i][2])}
    IN  IF hits = {} THEN "general"
        ELSE ServiceTypeKeywords[CHOOSE i \in hits : \A j \in hits : i <= j][1]

\* ordered (pillar name, trigger substrings) rules per service category
SERVICE_PILLAR_RULES ==
  [
    plumbing |->
      <<
        <<"Emergency Plumbing", << <<"e","m","e","r","g","e","n","c","y">>, <<"u","r","g","e","n","t">>,
              <<"2","4"," ","h","o","u","r">>, <<"s","a","m","e"," ","d","a","y">>,
              <<"2","4","/","7">> >> >>,
        <<"Water Heater", << <<"w","a","t","e","r"," ","h","e","a","t","e","r">>,
              <<"h","o","t"," ","w","a","t","e","r">>, <<"t","a","n","k","l","e","s","s">> >> >>,
        <<"Drain & Sewer", << <<"d","r","a","i","n">>, <<"s","e","w","e","r">>, <<"c","l","o","g">>,
              <<"r","o","o","t","e","r">>, <<"s","e","w","e","r"," ","l","i","n","e">> >> >>,
        <<"Water Treatment", << <<"w","a","t","e","r"," ","s","o","f","t","e","n","e","r">>,
              <<"s","o","f","t","e","n","e","r">>,
              <<"w","a","t","e","r"," ","t","r","e","a","t","m","e","n","t">>,
              <<"r","e","v","e","r","s","e"," ","o","s","m","o","s","i","s">>,
              <<"r","o"," ","s","y","s","t","e","m">>, <<"f","i","l","t","r","a","t","i","o","n">>,
              <<"c","o","n","d","i","t","i","o","n","i","n","g">>,
              <<"w","a","t","e","r"," ","p","u","r","i","f">> >> >>,
        <<"Leak & Pipe Repair", << <<"l","e","a","k">>, <<"p","i","p","e">>, <<"b","u","r","s","t">>,
              <<"r","e","p","i","p","i","n","g">> >> >>,
        <<"General Plumbing", <<  >> >>
      >>,
    electrician |->
      <<
        <<"Emergency", << <<"e","m","e","r","g","e","n","c","y">>, <<"u","r","g","e","n","t">>,
              <<"2","4"," ","h","o","u","r">>, <<"s","a","m","e"," ","d","a","y">> >> >>,
        <<"Panel & Service", << <<"p","a","n","e","l">>, <<"b","r","e","a","k","e","r">>,
              <<"e","l","e","c","t","r","i","c","a","l"," ","b","o","x">>,
              <<"s","e","r","v","i","c","e"," ","u","p","g","r","a","d","e">>,
              <<"2","0","0"," ","a","m","p">>, <<"1","0","0"," ","a","m","p">> >> >>,
        <<"EV Charging", << <<"e","v"," ","c","h","a","r","g","e","r">>,
              <<"e","l","e","c","t","r","i","c"," ","v","e","h","i","c","l","e">>,
              <<"t","e","s","l","a">>,
              <<"c","h","a","r","g","e","r"," ","i","n","s","t","a","l","l">>,
              <<"c","h","a","r","g","i","n","g"," ","s","t","a","t","i","o","n">> >> >>,
        <<"Lighting", << <<"l","i","g","h","t","i","n","g">>,
              <<"l","i","g","h","t"," ","f","i","x","t","u","r","e">>, <<"l","e","d">>,
              <<"d","i","m","m","e","r">>, <<"r","e","c","e","s","s","e","d">> >> >>,
        <<"Wiring & Outlets", << <<"w","i","r","i","n","g">>, <<"r","e","w","i","r","e">>,
              <<"o","u","t","l","e","t">>, <<"s","w","i","t","c","h">>, <<"g","f","c","i">> >> >>,
        <<"General Electrical", <<  >> >>
      >>,
    hvac |->
      <<
        <<"Emergency HVAC", << <<"e","m","e","r","g","e","n","c","y">>, <<"u","r","g","e","n","t">>,
              <<"2","4"," ","h","o","u","r">>, <<"s","a","m","e"," ","d","a","y">> >> >>,
        <<"AC Repair", << <<"a","c"," ","r","e","p","a","i","r">>,
              <<"a","i","r"," ","c","o","n","d","i","t","i","o","n","e","r"," ","r","e","p","a","i","r">>,
              <<"a","c"," ","s","e","r","v","i","c","e">>,
              <<"c","o","o","l","i","n","g"," ","r","e","p","a","i","r">>,
              <<"a","c"," ","n","o","t"," ","c","o","o","l","i","n","g">> >> >>,
        <<"Heating", << <<"h","e","a","t","i","n","g">>, <<"f","u","r","n","a","c","e">>,
              <<"h","e","a","t"," ","p","u","m","p">>, <<"b","o","i","l","e","r">>,
              <<"h","e","a","t","e","r">> >> >>,
        <<"Installation", << <<"i","n","s","t","a","l","l","a","t","i","o","n">>, <<"i","n","s","t","a","l","l">>,
              <<"n","e","w"," ","u","n","i","t">>, <<"r","e","p","l","a","c","e","m","e","n","t">>,
              <<"n","e","w"," ","a","c">>, <<"n","e","w"," ","h","v","a","c">> >> >>,
        <<"Air Quality", << <<"a","i","r"," ","q","u","a","l","i","t","y">>, <<"d","u","c","t","w","o","r","k">>,
              <<"f","i","l","t","e","r">>, <<"p","u","r","i","f","i","e","r">>,
              <<"h","u","m","i","d","i","t","y">>,
              <<"d","u","c","t"," ","c","l","e","a","n","i","n","g">> >> >>,
        <<"General HVAC", <<  >> >>
      >>,
    roofing |->
      <<
        <<"Emergency / Storm", << <<"e","m","e","r","g","e","n","c","y">>,
              <<"s","t","o","r","m"," ","d","a","m","a","g","e">>, <<"u","r","g","e","n","t">>,
              <<"r","o","o","f"," ","l","e","a","k">>,
              <<"h","a","i","l"," ","d","a","m","a","g","e">> >> >>,
        <<"Roof Replacement", << <<"r","e","p","l","a","c","e","m","e","n","t">>, <<"n","e","w"," ","r","o","o","f">>,
              <<"r","e","r","o","o","f">> >> >>,
        <<"Roof Repair", << <<"r","e","p","a","i","r">>, <<"f","i","x">>, <<"p","a","t","c","h">>,
              <<"l","e","a","k"," ","r","e","p","a","i","r">> >> >>,
        <<"Gutters", << <<"g","u","t","t","e","r">>, <<"d","o","w","n","s","p","o","u","t">>,
              <<"f","a","s","c","i","a">>, <<"s","o","f","f","i","t">> >> >>,
        <<"Inspection", << <<"i","n","s","p","e","c","t","i","o","n">>, <<"e","s","t","i","m","a","t","e">>,
              <<"a","s","s","e","s","s","m","e","n","t">> >> >>,
        <<"General Roofing", <<  >> >>
      >>,
    auto_detailing |->
      <<
        <<"Emergency / Urgent", << <<"e","m","e","r","g","e","n","c","y">>, <<"u","r","g","e","n","t">>,
              <<"2","4"," ","h","o","u","r">>, <<"s","a","m","e"," ","d","a","y">>,
              <<"2","4","/","7">> >> >>,
        <<"Premium / Specialty", << <<"c","e","r","a","m","i","c">>,
              <<"p","a","i","n","t"," ","c","o","r","r","e","c","t","i","o","n">>, <<"p","p","f">>,
              <<"p","r","o","t","e","c","t","i","o","n"," ","f","i","l","m">>,
              <<"r","e","s","t","o","r","a","t","i","o","n">>, <<"p","r","e","m","i","u","m">>,
              <<"p","a","c","k","a","g","e","s">>, <<"f","u","l","l"," ","d","e","t","a","i","l">> >> >>,
        <<"Interior", << <<"i","n","t","e","r","i","o","r">>, <<"i","n","s","i","d","e">>,
              <<"u","p","h","o","l","s","t","e","r","y">>, <<"c","a","r","p","e","t">>,
              <<"s","t","e","a","m">> >> >>,
        <<"Exterior / Wash", << <<"e","x","t","e","r","i","o","r">>, <<"o","u","t","s","i","d","e">>,
              <<"w","a","s","h">>, <<"w","a","x">>, <<"p","o","l","i","s","h">> >> >>,
        <<"Mobile", << <<"m","o","b","i","l","e">>, <<"c","o","m","e"," ","t","o">>,
              <<"a","t"," ","h","o","m","e">>, <<"y","o","u","r"," ","h","o","m","e">>,
              <<"o","n","-","s","i","t","e">> >> >>,
        <<"Core Detailing", <<  >> >>
      >>,
    concrete |->
      <<
        <<"Driveway", << <<"d","r","i","v","e","w","a","y">> >> >>,
        <<"Patio / Outdoor", << <<"p","a","t","i","o">>, <<"w","a","l","k","w","a","y">>,
              <<"p","a","t","h","w","a","y">>, <<"o","u","t","d","o","o","r">>,
              <<"s","i","d","e","w","a","l","k">> >> >>,
        <<"Decorative", << <<"s","t","a","m","p","e","d">>, <<"d","e","c","o","r","a","t","i","v","e">>,
              <<"s","t","a","i","n","e","d">>,
              <<"e","x","p","o","s","e","d"," ","a","g","g","r","e","g","a","t","e">>,
              <<"c","o","l","o","r","e","d">> >> >>,
        <<"Repair", << <<"r","e","p","a","i","r">>, <<"c","r","a","c","k">>, <<"f","i","x">>,
              <<"r","e","s","u","r","f","a","c","e">>, <<"p","a","t","c","h">> >> >>,
        <<"Foundation", << <<"f","o","u","n","d","a","t","i","o","n">>, <<"s","l","a","b">>,
              <<"f","o","o","t","i","n","g">>, <<"b","a","s","e","m","e","n","t">> >> >>,
        <<"General Concrete", <<  >> >>
      >>,
    landscaping |->
      <<
        <<"Lawn Care", << <<"l","a","w","n">>, <<"m","o","w","i","n","g">>, <<"g","r","a","s","s">>,
              <<"t","u","r","f">>, <<"s","o","d">> >> >>,
        <<"Tree Services", << <<"t","r","e","e"," ","t","r","i","m">>,
              <<"t","r","e","e"," ","r","e","m","o","v","a","l">>,
              <<"t","r","e","e"," ","s","e","r","v","i","c","e">>, <<"s","t","u","m","p">>,
              <<"a","r","b","o","r","i","s","t">> >> >>,
        <<"Irrigation", << <<"i","r","r","i","g","a","t","i","o","n">>, <<"s","p","r","i","n","k","l","e","r">>,
              <<"d","r","i","p"," ","s","y","s","t","e","m">> >> >>,
        <<"Hardscape", << <<"p","a","t","i","o">>, <<"r","e","t","a","i","n","i","n","g"," ","w","a","l","l">>,
              <<"w","a","l","k","w","a","y">>, <<"p","a","v","e","r","s">>,
              <<"f","i","r","e"," ","p","i","t">> >> >>,
        <<"Design & Install", << <<"d","e","s","i","g","n">>,
              <<"l","a","n","d","s","c","a","p","e"," ","d","e","s","i","g","n">>,
              <<"r","e","n","o","v","a","t","i","o","n">>, <<"m","a","k","e","o","v","e","r">>,
              <<"i","n","s","t","a","l","l">> >> >>,
        <<"General Landscaping", <<  >> >>
      >>,
    general |->
      <<
        <<"Emergency", << <<"e","m","e","r","g","e","n","c","y">>, <<"u","r","g","e","n","t">>,
              <<"2","4"," ","h","o","u","r">>, <<"s","a","m","e"," ","d","a","y">> >> >>,
        <<"Premium Service", << <<"p","r","e","m","i","u","m">>, <<"b","e","s","t">>,
              <<"t","o","p"," ","r","a","t","e","d">>,
              <<"p","r","o","f","e","s","s","i","o","n","a","l">> >> >>,
        <<"Local Demand", <<  >> >>
      >>
  ]

\* a plausible slip: a category without a rule list of its own gets no rules
PillarRulesNoDefault(service_type) ==
    IF service_type \in DOMAIN SERVICE_PILLAR_RULES
    THEN SERVICE_PILLAR_RULES[service_type] ELSE <<>>

\* _SERVICE_PILLAR_RULES.get(service_type, _SERVICE_PILLAR_RULES["general"])
PillarRules(service_type) ==
    IF service_type \in DOMAIN SERVICE_PILLAR_RULES
    THEN SERVICE_PILLAR_RULES[service_type] ELSE SERVICE_PILLAR_RULES["general"]

\* a plausible slip: no `break`, the last rule whose triggers match wins
PillarOfLastMatch(kw_data, pillar_rules) ==
    LET kw == Lower(OrEmpty(kw_data, "keyword"))
        hits == {i \in 1..Len(pillar_rules) :
                    pillar_rules[i][2] # <<>> /\ AnyContained(kw, pillar_rules[i][2])}
        catch == {i \in 1..Len(pillar_rules) : pillar_rules[i][2] = <<>>}
    IN  IF hits # {} THEN pillar_rules[CHOOSE i \in hits : \A j \in hits : j <= i][1]
        ELSE IF catch # {} THEN pillar_rules[CHOOSE i \in catch : \A j \in catch : i <= j][1]
        ELSE ""

\* the pillar a keyword record is appended to: the first rule with a non-empty
\* trigger list that matches, else the first rule with an empty trigger list;
\* "" when the rules have neither (the record is then in no bucket).
\* kw = kw_data.get("keyword", "").lower(): the keyword is text or the key is absent
PillarOf(kw_data, pillar_rules) ==
    LET kw == Lower(OrEmpty(kw_data, "keyword"))
        hits == {i \in 1..Len(pillar_rules) :
                    pillar_rules[i][2] # <<>> /\ AnyContained(kw, pillar_rules[i][2])}
        catch == {i \in 1..Len(pillar_rules) : pillar_rules[i][2] = <<>>}
    IN  IF hits # {} THEN pillar_rules[CHOOSE i \in hits : \A j \in hits : i <= j][1]
        ELSE IF catch # {} THEN pillar_rules[CHOOSE i \in catch : \A j \in catch : i <= j][1]
        ELSE ""

\* buckets[pillar_name].append(kw_data): buckets is a dict in insertion order
BucketAppend(bs, name, kw_data) ==
    IF name = "" THEN bs
    ELSE IF \E i \in 1..Len(bs) : bs[i].pillar = name
    THEN [i \in 1..Len(bs) |->
            IF bs[i].pillar = name
            THEN [bs[i] EXCEPT !.members = Append(@, kw_data)] ELSE bs[i]]
    ELSE Append(bs, [pillar |-> name, members |-> <<kw_data>>])

\* `for kw_data in volumes`
RECURSIVE BuildBuckets(_, _, _)
BuildBuckets(bs, vols, pillar_rules) ==
    IF vols = <<>> THEN bs
    ELSE BuildBuckets(BucketAppend(bs, PillarOf(Head(vols), pillar_rules), Head(vols)),
                      Tail(vols), pillar_rules)

\* the buckets of _build_keyword_pillar_table(volumes, service); `if not volumes: return`
PillarBuckets(vols, svc) ==
    IF vols = <<>> THEN <<>>
    ELSE BuildBuckets(<<>>, vols, PillarRules(DetectServiceType(svc)))

(***************************************************************************)
(* workflows/prospect_audit.py: exclusion lists, _is_excluded_domain,      *)
(* _is_large_chain                                                         *)
(***************************************************************************)
\* str.replace(old, ""): every non-overlapping occurrence, left to right
RECURSIVE RemoveAll(_, _)
RemoveAll(s, old) ==
    IF Len(s) < Len(old) \/ old = <<>> THEN s
    ELSE IF SubSeq(s, 1, Len(old)) = old
         THEN RemoveAll(SubSeq(s, Len(old) + 1, Len(s)), old)
         ELSE <<Head(s)>> \o RemoveAll(Tail(s), old)

\* d = domain.lower().strip().replace("www.", "")
BareDomain(domain) == RemoveAll(Strip(Lower(domain)), <<"w","w","w",".">>)

EXCLUDED_DOMAINS ==
  { <<"a","n","g","i",".","c","o","m">>,
    <<"a","n","g","i","e","s","l","i","s","t",".","c","o","m">>,
    <<"a","u","t","o","b","e","l","l",".","c","o","m">>,
    <<"b","a","r","k",".","c","o","m">>, <<"b","b","b",".","o","r","g">>,
    <<"b","r","o","w","n","b","o","o","k",".","n","e","t">>,
    <<"c","i","t","y","s","e","a","r","c","h",".","c","o","m">>,
    <<"c","o","b","b","l","e","s","t","o","n","e",".","c","o","m">>,
    <<"d","e","x","k","n","o","w","s",".","c","o","m">>,
    <<"e","x","p","e","r","t","i","s","e",".","c","o","m">>,
    <<"e","x","p","r","e","s","s","c","a","r","w","a","s","h",".","c","o","m">>,
    <<"f","a","c","e","b","o","o","k",".","c","o","m">>,
    <<"f","i","x","r",".","c","o","m">>,
    <<"g","l","a","s","s","d","o","o","r",".","c","o","m">>,
    <<"g","o","o","-","g","o","o",".","c","o","m">>,
    <<"g","o","o","g","l","e",".","c","o","m">>,
    <<"h","a","n","d","y","m","a","n",".","c","o","m">>,
    <<"h","i","p","a","g","e","s",".","c","o","m",".","a","u">>,
    <<"h","o","m","e","a","d","v","i","s","o","r",".","c","o","m">>,
    <<"h","o","t","f","r","o","g",".","c","o","m">>,
    <<"h","o","u","z","z",".","c","o","m">>, <<"i","n","d","e","e","d",".","c","o","m">>,
    <<"i","n","s","t","a","g","r","a","m",".","c","o","m">>,
    <<"l","o","c","a","l",".","c","o","m">>, <<"m","a","n","t","a",".","c","o","m">>,
    <<"m","a","p","q","u","e","s","t",".","c","o","m">>,
    <<"m","e","r","c","h","a","n","t","c","i","r","c","l","e",".","c","o","m">>,
    <<"m","i","s","t","e","r","-","c","a","r","-","w","a","s","h",".","c","o","m">>,
    <<"n","e","i","g","h","b","o","r","l","y",".","c","o","m">>,
    <<"n","e","x","t","d","o","o","r",".","c","o","m">>,
    <<"p","o","r","c","h",".","c","o","m">>, <<"r","e","d","d","i","t",".","c","o","m">>,
    <<"s","e","r","v","i","c","e","m","a","s","t","e","r",".","c","o","m">>,
    <<"s","e","r","v","i","c","e","s","e","e","k","i","n","g",".","c","o","m">>,
    <<"s","p","e","e","d","y","s","h","i","n","e",".","c","o","m">>,
    <<"s","u","p","e","r","p","a","g","e","s",".","c","o","m">>,
    <<"t","h","u","m","b","t","a","c","k",".","c","o","m">>,
    <<"t","u","r","t","l","e","w","a","x",".","c","o","m">>,
    <<"w","a","t","e","r","w","a","y",".","c","o","m">>,
    <<"w","h","i","t","e","p","a","g","e","s",".","c","o","m">>,
    <<"y","e","l","l","o","w","p","a","g","e","s",".","c","o","m">>,
    <<"y","e","l","p",".","c","o","m">>,
    <<"z","i","p","r","e","c","r","u","i","t","e","r",".","c","o","m">> }

LARGE_CHAIN_DOMAINS ==
  { <<"a","h","s",".","c","o","m">>,
    <<"b","e","n","j","a","m","i","n","f","r","a","n","k","l","i","n","p","l","u","m","b","i","n","g",".","c","o","m">>,
    <<"c","a","l","l","m","r","e","l","e","c","t","r","i","c",".","c","o","m">>,
    <<"c","o","m","f","o","r","t","s","y","s","t","e","m","s","u","s","a",".","c","o","m">>,
    <<"m","r","r","o","o","t","e","r",".","c","o","m">>,
    <<"o","n","e","h","o","u","r","h","e","a","t","a","n","d","a","i","r",".","c","o","m">>,
    <<"p","a","r","k","e","r","a","n","d","s","o","n","s",".","c","o","m">>,
    <<"r","o","o","t","e","r","h","e","r","o",".","c","o","m">>,
    <<"r","o","t","o","-","r","o","o","t","e","r",".","c","o","m">>,
    <<"r","o","t","o","r","o","o","t","e","r",".","c","o","m">>,
    <<"s","e","r","v","i","c","e","e","x","p","e","r","t","s",".","c","o","m">> }

\* skip_patterns of _is_excluded_domain
SkipPatterns ==
  << <<"y","e","l","p",".","c","o","m">>, <<"g","o","o","g","l","e",".","c","o","m">>,
     <<"f","a","c","e","b","o","o","k",".","c","o","m">>,
     <<"i","n","s","t","a","g","r","a","m",".","c","o","m">>,
     <<"a","n","g","i",".","c","o","m">>,
     <<"t","h","u","m","b","t","a","c","k",".","c","o","m">>,
     <<"h","o","m","e","a","d","v","i","s","o","r",".","c","o","m">> >>

IsExcludedDomain(domain) ==
    \/ domain = <<>>
    \/ BareDomain(domain) \in EXCLUDED_DOMAINS
    \/ AnyContained(BareDomain(domain), SkipPatterns)

IsLargeChain(domain) ==
    \/ BareDomain(domain) \in LARGE_CHAIN_DOMAINS
    \/ \E c \in LARGE_CHAIN_DOMAINS : Contains(BareDomain(domain), c)

(***************************************************************************)
(* utils/dataforseo.py: research_competitors;                              *)
(* workflows/prospect_audit.py: _discover_metro_competitors                *)
(*                                                                         *)
(* The outcome of an awaited call is [ok |-> FALSE] when it raised and     *)
(* [ok |-> TRUE, val |-> v] when it returned v.  The result lists of       *)
(* get_local_pack and get_organic_serp are given by their "domain" fields. *)
(***************************************************************************)
Raised == [ok |-> FALSE]
Returned(v) == [ok |-> TRUE, val |-> v]

\* a plausible slip: the exception object is kept as the result
KeepException(outcome) == outcome

\* `if isinstance(x, Exception): x = []` after gather(..., return_exceptions=True)
ExceptionToEmpty(outcome) == IF outcome.ok THEN outcome ELSE Returned(<<>>)

\* the dedup loop: d = item.get("domain", "").strip().lower(); keep the first of each
RECURSIVE DedupDomains(_, _)
DedupDomains(seen, items) ==
    IF items = <<>> THEN <<>>
    ELSE LET d == Lower(Strip(Head(items)))
         IN  IF d # <<>> /\ d \notin seen
             THEN <<d>> \o DedupDomains(seen \cup {d}, Tail(items))
             ELSE DedupDomains(seen, Tail(items))

\* seq[:n]
Take(seq, n) == SubSeq(seq, 1, IF Len(seq) < n THEN Len(seq) ELSE n)

\* research_competitors(...)["all_domains"]; maps_result + organic_result raises
\* TypeError when either is still an exception object
ResearchCompetitors(maps, organic) ==
    LET m == ExceptionToEmpty(maps)
        o == ExceptionToEmpty(organic)
    IN  IF ~m.ok \/ ~o.ok THEN Raised
        ELSE Returned(Take(DedupDomains({}, m.val \o o.val), 8))

\* [d for d in seq if not _is_excluded_domain(d)]
RECURSIVE LocalDomains(_)
LocalDomains(seq) ==
    IF seq = <<>> THEN <<>>
    ELSE IF IsExcludedDomain(Head(seq)) THEN LocalDomains(Tail(seq))
         ELSE <<Head(seq)>> \o LocalDomains(Tail(seq))

\* _search_city: the top 4 non-excluded domains, [] on any exception
SearchCity(maps, organic) ==
    LET result == ResearchCompetitors(maps, organic)
    IN  IF result.ok THEN Returned(Take(LocalDomains(result.val), 4)) ELSE Returned(<<>>)

\* domain_cities after `for city, domains in zip(metro_cities, city_results)`:
\* a dict in insertion order, as a sequence of [domain, cities]
RECURSIVE AddCity(_, _, _)
AddCity(dc, city, domains) ==
    IF domains = <<>> THEN dc
    ELSE LET d == Head(domains)
             next == IF \E i \in 1..Len(dc) : dc[i].domain = d
                     THEN [i \in 1..Len(dc) |->
                            IF dc[i].domain = d
                            THEN [dc[i] EXCEPT !.cities = Append(@, city)] ELSE dc[i]]
                     ELSE Append(dc, [domain |-> d, cities |-> <<city>>])
         IN  AddCity(next, city, Tail(domains))

RECURSIVE DomainCities(_, _, _)
DomainCities(dc, cities, results) ==
    IF cities = <<>> \/ results = <<>> THEN dc
    ELSE DomainCities(AddCity(dc, Head(cities), Head(results)), Tail(cities), Tail(results))

\* a plausible slip: the domains are returned in insertion order, not sorted
TopDomainsUnsorted(dc) == Take(dc, 7)

\* sorted(domain_cities.keys(), key=lambda d: len(domain_cities[d]), reverse=True)[:7]
TopDomains(dc) ==
    Take(SortedDesc([i \in 1..Len(dc) |-> <<Len(dc[i].cities), dc[i]>>]), 7)

(***************************************************************************)
(* Inputs of _compute_keyword_gap                                          *)
(***************************************************************************)
\* total number of keyword records in one input (client and competitors)
MaxKws == 3

DrainTerm == <<"d","r","a","i","n"," ","c","l","e","a","n","i","n","g"," ","g","i","l","b","e","r","t">>
EmergencyTerm == <<"e","m","e","r","g","e","n","c","y"," ","p","l","u","m","b","e","r"," ","g","i","l","b","e","r","t"," ","a","z">>

\* records as get_domain_ranked_keywords returns them; keys that are None are absent
ClientRecords ==
    { [keyword |-> <<"D","R","A","I","N"," ","C","L","E","A","N","I","N","G"," ","G","I","L","B","E","R","T">>, search_volume |-> 70, rank |-> 9],
      [keyword |-> <<" ">>, search_volume |-> 5],
      [search_volume |-> 40, rank |-> 2] }

CompetitorRecords ==
    { [keyword |-> DrainTerm, search_volume |-> 50, rank |-> 1],
      [keyword |-> <<"D","r","a","i","n"," ","C","l","e","a","n","i","n","g"," ","G","i","l","b","e","r","t"," ">>, search_volume |-> 200, rank |-> 2],
      [keyword |-> DrainTerm, search_volume |-> 200, rank |-> 5, traffic_estimate |-> 7],
      [keyword |-> EmergencyTerm, search_volume |-> 50, rank |-> 3],
      [keyword |-> EmergencyTerm],
      [keyword |-> <<" ">>, search_volume |-> 10, rank |-> 1],
      [search_volume |-> 30, rank |-> 4] }

CompetitorDomains == <<"bestplumbing.com", "rivalrooter.com">>

ServerIdle ==
    /\ sa_key = FALSE
    /\ requests = <<>>
    /\ at = <<>>
    /\ req_locals = <<>>
    /\ trace = <<>>
    /\ db_jobs = <<>>
    /\ docx_files = <<>>

AdValueIdle ==
    /\ ad_kw = <<>>
    /\ ad_report = <<>>

FormatIdle ==
    /\ format_input = <<>>
    /\ first_run = <<>>
    /\ second_run = <<>>

AdapterIdle ==
    /\ adapter_call = <<>>
    /\ dfs_response = <<>>
    /\ adapter_result = <<>>
    /\ dfs_requests = <<>>

NormIdle ==
    /\ raw_url = <<>>
    /\ domain_once = <<>>
    /\ domain_twice = <<>>

MetroIdle ==
    /\ metro_city = <<>>
    /\ metro_state = <<>>
    /\ metro_n = 0
    /\ metro_result = <<>>

WorkflowIdle ==
    /\ workflow_id = ""
    /\ environ = {}
    /\ inputs = <<>>
    /\ locals = <<>>
    /\ calls = <<>>
    /\ output = <<>>
    /\ raised = "none"
    /\ jobs = <<>>

LeaderIdle ==
    /\ competitor_profiles = <<>>
    /\ market_leader = <<>>

ProfileIdle ==
    /\ profile_domains = <<>>
    /\ fetch_tasks = <<>>
    /\ profiles = <<>>

TrafficIdle ==
    /\ top_kws = <<>>
    /\ filled_kws = <<>>

DiscIdle ==
    /\ dfs_login = FALSE
    /\ metro_cities = <<>>
    /\ city_tasks = <<>>
    /\ domain_city_map = <<>>

PillarIdle ==
    /\ volumes = <<>>
    /\ service = <<>>
    /\ buckets = <<>>

GapIdle ==
    /\ client_keywords = <<>>
    /\ competitor_keyword_sets = <<>>
    /\ gap_keywords = <<>>

\* gap_keywords = _compute_keyword_gap(client_keywords, competitor_keyword_sets)
ComputeGap ==
    /\ pc = "gap_start"
    /\ gap_keywords' = ComputeKeywordGap(client_keywords, competitor_keyword_sets)
    /\ pc' = "gap_done"
    /\ UNCHANGED <<client_keywords, competitor_keyword_sets, pillarVars, discVars, trafVars, profVars, leaderVars, flowVars, metroVars, normVars, adapterVars, formatVars, adVars, srvVars>>

InitGap ==
    /\ pc = "gap_start"
    /\ \E c \in 0..MaxKws : \E a \in 0..(MaxKws - c) : \E b \in 0..(MaxKws - c - a) :
         /\ client_keywords \in [1..c -> ClientRecords]
         /\ \E l1 \in [1..a -> CompetitorRecords], l2 \in [1..b -> CompetitorRecords] :
              competitor_keyword_sets =
                  << <<CompetitorDomains[1], l1>>, <<CompetitorDomains[2], l2>> >>
    /\ gap_keywords = <<>>
    /\ PillarIdle /\ DiscIdle /\ TrafficIdle /\ ProfileIdle /\ LeaderIdle /\ WorkflowIdle /\ MetroIdle /\ NormIdle /\ AdapterIdle /\ FormatIdle /\ AdValueIdle /\ ServerIdle

SpecGap == InitGap /\ [][ComputeGap]_vars

(***************************************************************************)
(* Claims about _compute_keyword_gap                                       *)
(***************************************************************************)
\* every occurrence of a keyword record in the competitor lists: <<competitor, position>>
Occurrences ==
    {o \in (1..Len(competitor_keyword_sets)) \X (1..MaxKws + 1) :
        o[2] <= Len(competitor_keyword_sets[o[1]][2])}
OccRecord(o) == competitor_keyword_sets[o[1]][2][o[2]]
OccDomain(o) == competitor_keyword_sets[o[1]][1]

\* the term is one the client does not rank for: not empty and not the
\* normalised keyword of any client record
IsGapTerm(t) ==
    /\ t # <<>>
    /\ \A j \in 1..Len(client_keywords) :
          Has(client_keywords[j], "keyword") => NormTerm(client_keywords[j].keyword) # t

\* C1: no returned record has a keyword equal, after lowercasing and trimming,
\* to the lowercased and trimmed keyword of a client record.
C1_GapExcludesClientTerms ==
    pc = "gap_done" =>
        \A i \in 1..Len(gap_keywords) : \A j \in 1..Len(client_keywords) :
            Has(client_keywords[j], "keyword") =>
                NormTerm(gap_keywords[i].keyword) # NormTerm(client_keywords[j].keyword)

\* C1 witness: the client ranks for a term that a competitor also ranks for
\* (in another spelling), and the gap still holds another term.
C1_Witness ==
    /\ pc = "gap_done"
    /\ gap_keywords # <<>>
    /\ \E o \in Occurrences : \E j \in 1..Len(client_keywords) :
          /\ Has(client_keywords[j], "keyword") /\ Has(OccRecord(o), "keyword")
          /\ TermOf(OccRecord(o)) # <<>>
          /\ OccRecord(o).keyword # client_keywords[j].keyword
          /\ TermOf(OccRecord(o)) = NormTerm(client_keywords[j].keyword)

\* largest volume (None counted as 0) over the occurrences of term t
MaxVolume(t) ==
    CHOOSE m \in {OrZero(OccRecord(o), "search_volume") : o \in {x \in Occurrences : TermOf(OccRecord(x)) = t}} :
        \A o \in Occurrences :
            TermOf(OccRecord(o)) = t => OrZero(OccRecord(o), "search_volume") <= m

\* C2: a gap term that occurs in one or several competitor records yields exactly
\* one returned record; its search_volume is the maximum over the occurrences and
\* its top_competitor and rank_at_competitor are those of an occurrence with that
\* maximum volume.
C2_GapDedupKeepsMaxVolume ==
    pc = "gap_done" =>
        \A o \in Occurrences :
            LET t == TermOf(OccRecord(o)) IN
            IsGapTerm(t) =>
                /\ Cardinality({i \in 1..Len(gap_keywords) : gap_keywords[i].keyword = t}) = 1
                /\ \A i \in 1..Len(gap_keywords) :
                      gap_keywords[i].keyword = t =>
                        /\ gap_keywords[i].search_volume = MaxVolume(t)
                        /\ \E w \in Occurrences :
                              /\ TermOf(OccRecord(w)) = t
                              /\ OrZero(OccRecord(w), "search_volume") = MaxVolume(t)
                              /\ gap_keywords[i].top_competitor = OccDomain(w)
                              /\ Has(gap_keywords[i], "rank_at_competitor") = Has(OccRecord(w), "rank")
                              /\ Has(OccRecord(w), "rank") =>
                                    gap_keywords[i].rank_at_competitor = OccRecord(w).rank

\* C2 witness: two competitors rank for the same term with volumes 50 and 200,
\* and the single returned record carries 200 and the 200-volume competitor.
C2_Witness ==
    /\ pc = "gap_done"
    /\ Len(gap_keywords) = 1
    /\ gap_keywords[1].search_volume = 200
    /\ \E o, w \in Occurrences :
          /\ o[1] # w[1]
          /\ TermOf(OccRecord(o)) = gap_keywords[1].keyword
          /\ TermOf(OccRecord(w)) = gap_keywords[1].keyword
          /\ OccRecord(o).search_volume = 50
          /\ OccRecord(w).search_volume = 200
          /\ gap_keywords[1].top_competitor = OccDomain(w)

\* occurrence o is met before occurrence w by the two nested loops
OccBefore(o, w) == o[1] < w[1] \/ (o[1] = w[1] /\ o[2] < w[2])

\* the occurrences of term t whose volume (None counted as 0) is the maximum
TopOccurrences(t) ==
    LET m == MaxVolume(t)
    IN  {o \in Occurrences :
            TermOf(OccRecord(o)) = t /\ OrZero(OccRecord(o), "search_volume") = m}

\* the first of them in loop order
FirstTopOccurrence(t) ==
    LET top == TopOccurrences(t)
    IN  CHOOSE o \in top : \A w \in top : w = o \/ OccBefore(o, w)

\* the returned record is the one built from occurrence o
BuiltFrom(r, o) ==
    /\ r.top_competitor = OccDomain(o)
    /\ r.search_volume = OrZero(OccRecord(o), "search_volume")
    /\ r.traffic_estimate = OrZero(OccRecord(o), "traffic_estimate")
    /\ Has(r, "rank_at_competitor") = Has(OccRecord(o), "rank")
    /\ Has(OccRecord(o), "rank") => r.rank_at_competitor = OccRecord(o).rank

\* C11: when several occurrences of a gap term have the same (highest)
\* search_volume, the returned record is the one built from the occurrence seen
\* first (earlier competitor, earlier position in its list): a later occurrence
\* replaces the stored one only when its volume is strictly higher.
C11_TieKeepsFirstSeen ==
    pc = "gap_done" =>
        \A i \in 1..Len(gap_keywords) :
            BuiltFrom(gap_keywords[i], FirstTopOccurrence(gap_keywords[i].keyword))

\* C11 witness: a gap term occurs twice with the same highest volume in records
\* that differ in rank, and the returned record carries the rank of the first.
C11_Witness ==
    /\ pc = "gap_done"
    /\ \E i \in 1..Len(gap_keywords) : \E o, w \in Occurrences :
          /\ o \in TopOccurrences(gap_keywords[i].keyword)
          /\ w \in TopOccurrences(gap_keywords[i].keyword)
          /\ OccBefore(o, w)
          /\ Has(OccRecord(o), "rank") /\ Has(OccRecord(w), "rank")
          /\ OccRecord(o).rank # OccRecord(w).rank
          /\ gap_keywords[i].search_volume > 0
          /\ gap_keywords[i].rank_at_competitor = OccRecord(o).rank

\* the occurrence that inserted term t into the gap map: its first, in loop order
FirstOccurrence(t) ==
    CHOOSE o \in Occurrences :
        /\ TermOf(OccRecord(o)) = t
        /\ \A w \in Occurrences : TermOf(OccRecord(w)) = t => (w = o \/ OccBefore(o, w))

\* C21: the returned list is in non-increasing order of search_volume, and
\* records of equal volume are in the order in which their terms were first
\* inserted into the gap map.
C21_SortedByVolumeStable ==
    pc = "gap_done" =>
        \A i, j \in 1..Len(gap_keywords) :
            i < j =>
                \/ gap_keywords[i].search_volume > gap_keywords[j].search_volume
                \/ /\ gap_keywords[i].search_volume = gap_keywords[j].search_volume
                   /\ OccBefore(FirstOccurrence(gap_keywords[i].keyword),
                                FirstOccurrence(gap_keywords[j].keyword))

\* C21 witness: a term inserted first with a lower volume is later replaced by a
\* record whose volume equals that of a term inserted in between, and it is
\* returned before that term.
C21_Witness ==
    /\ pc = "gap_done"
    /\ Len(gap_keywords) = 2
    /\ gap_keywords[1].search_volume = gap_keywords[2].search_volume
    /\ \E o \in Occurrences :
          /\ TermOf(OccRecord(o)) = gap_keywords[1].keyword
          /\ OccBefore(FirstOccurrence(gap_keywords[2].keyword), o)
          /\ OrZero(OccRecord(o), "search_volume") = gap_keywords[1].search_volume
          /\ OrZero(OccRecord(FirstOccurrence(gap_keywords[1].keyword)), "search_volume")
                < gap_keywords[1].search_volume

(***************************************************************************)
(* Pillar classification: inputs, the step and its claims                  *)
(***************************************************************************)
\* number of keyword volume records in one input
MaxVolumes == 3

\* records as get_keyword_search_volumes returns them
VolumeRecords ==
    { [keyword |-> <<"w","a","t","e","r"," ","h","e","a","t","e","r"," ","r","e","p","a","i","r"," ","g","i","l","b","e","r","t">>, search_volume |-> 40, cpc |-> 8,
        competition_level |-> "HIGH"],
      [keyword |-> <<"p","a","n","e","l"," ","u","p","g","r","a","d","e"," ","g","i","l","b","e","r","t">>, search_volume |-> 25, cpc |-> 15,
        competition_level |-> "LOW"],
      [keyword |-> <<"E","m","e","r","g","e","n","c","y"," ","D","r","a","i","n"," ","R","e","p","a","i","r">>, search_volume |-> 90, cpc |-> 30],
      [keyword |-> <<"i","n","t","e","r","i","o","r"," ","h","o","u","s","e"," ","p","a","i","n","t","i","n","g">>, search_volume |-> 10],
      [keyword |-> <<>>, search_volume |-> 0],
      [search_volume |-> 5, cpc |-> 2] }

Services ==
    { <<"p","l","u","m","b","i","n","g">>,
      <<"E","l","e","c","t","r","i","c","i","a","n">>,
      <<"H","V","A","C"," ","r","e","p","a","i","r">>,
      <<"r","o","o","f","i","n","g">>,
      <<"a","u","t","o"," ","d","e","t","a","i","l","i","n","g">>,
      <<"c","o","n","c","r","e","t","e">>,
      <<"l","a","w","n"," ","c","a","r","e">>,
      <<"h","o","u","s","e"," ","p","a","i","n","t","i","n","g">>,
      <<"m","a","i","d"," ","s","e","r","v","i","c","e">>,
      <<"p","e","s","t"," ","c","o","n","t","r","o","l">>,
      <<"n","o","t","a","r","y">>,
      <<>> }

\* the bucketing of _build_keyword_pillar_table(volumes, service)
BuildKeywordPillarTable ==
    /\ pc = "pillar_start"
    /\ buckets' = PillarBuckets(volumes, service)
    /\ pc' = "pillar_done"
    /\ UNCHANGED <<volumes, service, gapVars, discVars, trafVars, profVars, leaderVars, flowVars, metroVars, normVars, adapterVars, formatVars, adVars, srvVars>>

InitPillar ==
    /\ pc = "pillar_start"
    /\ volumes \in SeqUpTo(VolumeRecords, MaxVolumes)
    /\ service \in Services
    /\ buckets = <<>>
    /\ GapIdle /\ DiscIdle /\ TrafficIdle /\ ProfileIdle /\ LeaderIdle /\ WorkflowIdle /\ MetroIdle /\ NormIdle /\ AdapterIdle /\ FormatIdle /\ AdValueIdle /\ ServerIdle

SpecPillar == InitPillar /\ [][BuildKeywordPillarTable]_vars

\* how many times record r occurs in sequence s
CountIn(s, r) == Cardinality({i \in 1..Len(s) : s[i] = r})

\* C3: for a non-empty keyword list and any service string every input record is
\* in exactly one bucket: no pillar name occurs twice, the bucket sizes sum to the
\* number of inputs and every record is in the buckets as often as in the input.
C3_PillarCoverage ==
    (pc = "pillar_done" /\ volumes # <<>>) =>
        /\ \A i, j \in 1..Len(buckets) : buckets[i].pillar = buckets[j].pillar => i = j
        /\ SeqSum([i \in 1..Len(buckets) |-> Len(buckets[i].members)]) = Len(volumes)
        /\ \A r \in VolumeRecords :
              SeqSum([i \in 1..Len(buckets) |-> CountIn(buckets[i].members, r)])
                  = CountIn(volumes, r)

\* C3 witness: a service that _detect_service_type recognises as painting, which
\* has no rule list of its own, with its records bucketed by the general rules.
C3_Witness ==
    /\ pc = "pillar_done"
    /\ DetectServiceType(service) = "painting"
    /\ Len(volumes) = MaxVolumes
    /\ \E i \in 1..Len(buckets) : buckets[i].pillar = "Local Demand"
    /\ \E i \in 1..Len(buckets) : buckets[i].pillar = "Emergency"

\* the rule list the table is built with
RulesInForce == PillarRules(DetectServiceType(service))

\* the rules of which a trigger substring occurs in the lowercased keyword kw
TriggerOccurs(rules, kw) ==
    {n \in 1..Len(rules) : \E t \in 1..Len(rules[n][2]) : Contains(kw, rules[n][2][t])}

\* record r is a member of the bucket named p
InBucket(r, p) ==
    \E i \in 1..Len(buckets) :
        buckets[i].pillar = p /\ \E j \in 1..Len(buckets[i].members) : buckets[i].members[j] = r

WaterHeaterRepair == <<"w","a","t","e","r"," ","h","e","a","t","e","r"," ","r","e","p","a","i","r"," ","g","i","l","b","e","r","t">>
PanelUpgrade == <<"p","a","n","e","l"," ","u","p","g","r","a","d","e"," ","g","i","l","b","e","r","t">>

\* C12: a keyword is in the bucket of the first pillar, in the category's rule
\* order, one of whose trigger substrings occurs in the lowercased keyword, and
\* in the bucket of the category's catch-all pillar (the rule without triggers)
\* when no trigger occurs; it is in no other bucket, also when triggers of two
\* pillars occur in it. Under service type "plumbing", "water heater repair
\* gilbert" is in "Water Heater" and "panel upgrade gilbert" in "General Plumbing".
C12_FirstMatchingPillar ==
    pc = "pillar_done" =>
        LET rules == RulesInForce IN
        /\ \A k \in 1..Len(volumes) :
              LET r == volumes[k]
                  occurs == TriggerOccurs(rules, Lower(OrEmpty(r, "keyword")))
              IN  \A n \in 1..Len(rules) :
                      InBucket(r, rules[n][1]) <=>
                          \/ n \in occurs /\ \A q \in occurs : n <= q
                          \/ occurs = {} /\ rules[n][2] = <<>>
        /\ \A i \in 1..Len(buckets) : \E n \in 1..Len(rules) : buckets[i].pillar = rules[n][1]
        /\ DetectServiceType(service) = "plumbing" =>
              \A k \in 1..Len(volumes) :
                  /\ (Has(volumes[k], "keyword") /\ volumes[k].keyword = WaterHeaterRepair)
                        => InBucket(volumes[k], "Water Heater")
                  /\ (Has(volumes[k], "keyword") /\ volumes[k].keyword = PanelUpgrade)
                        => InBucket(volumes[k], "General Plumbing")

\* C12 witness: under service type "plumbing" the table was built from the two
\* named keywords and a keyword in which triggers of two pillars occur
\* ("emergency" and "drain"), which is in the earlier pillar's bucket only.
C12_Witness ==
    /\ pc = "pillar_done"
    /\ DetectServiceType(service) = "plumbing"
    /\ Len(buckets) = 3
    /\ \E a, b, c \in 1..Len(volumes) :
          /\ Has(volumes[a], "keyword") /\ volumes[a].keyword = WaterHeaterRepair
          /\ InBucket(volumes[a], "Water Heater")
          /\ Has(volumes[b], "keyword") /\ volumes[b].keyword = PanelUpgrade
          /\ InBucket(volumes[b], "General Plumbing")
          /\ {1, 3} \subseteq TriggerOccurs(RulesInForce, Lower(OrEmpty(volumes[c], "keyword")))
          /\ InBucket(volumes[c], "Emergency Plumbing")
          /\ ~InBucket(volumes[c], "Drain & Sewer")

(***************************************************************************)
(* Competitor discovery: inputs, the concurrent searches, the join         *)
(***************************************************************************)
\* number of locales searched
MaxCities == 4

MetroCityNames == <<"Phoenix", "Scottsdale", "Tempe", "Mesa", "Chandler", "Glendale", "Gilbert">>

\* what get_local_pack can do: raise, or return listings with these domains
MapsOutcomes ==
    { Raised,
      Returned(<< <<"A","c","e",".","c","o","m">>, <<"y","e","l","p",".","c","o","m">>, <<"b","o","b",".","c","o","m">> >>),
      Returned(<< <<"y","e","l","p",".","c","o","m">>, <<"m",".","y","e","l","p",".","c","o","m">>, <<"f","a","c","e","b","o","o","k",".","c","o","m">>, <<"b","b","b",".","o","r","g">>, <<"a","n","g","i",".","c","o","m">> >>) }

\* what get_organic_serp can do: raise, or return results with these domains
OrganicOutcomes ==
    { Raised,
      Returned(<< <<"c","a","t",".","c","o","m">>, <<"w","w","w",".","a","n","g","i",".","c","o","m">>, <<"d","a","n",".","c","o","m">>, <<"e","v","e",".","c","o","m">>,
                 <<"f","a","y",".","c","o","m">>, <<"g","u","s",".","c","o","m">> >>),
      Returned(<< <<"g","u","s",".","c","o","m">>, <<"h","a","l",".","c","o","m">>, <<"a","c","e",".","c","o","m"," ">>, <<"r","o","t","o","r","o","o","t","e","r",".","c","o","m">>,
                 <<"i","v","y",".","c","o","m">> >>) }

InitDiscover ==
    /\ pc = "disc_start"
    /\ dfs_login \in BOOLEAN
    /\ \E n \in 1..MaxCities : metro_cities = Take(MetroCityNames, n)
    /\ city_tasks = [i \in 1..Len(metro_cities) |-> [done |-> FALSE]]
    /\ domain_city_map = <<>>
    /\ GapIdle /\ PillarIdle /\ TrafficIdle /\ ProfileIdle /\ LeaderIdle /\ WorkflowIdle /\ MetroIdle /\ NormIdle /\ AdapterIdle /\ FormatIdle /\ AdValueIdle /\ ServerIdle

\* `if not has_creds: return {}`
DiscoverWithoutCredentials ==
    /\ pc = "disc_start"
    /\ ~dfs_login
    /\ domain_city_map' = <<>>
    /\ pc' = "disc_done"
    /\ UNCHANGED <<dfs_login, metro_cities, city_tasks, gapVars, pillarVars, trafVars, profVars, leaderVars, flowVars, metroVars, normVars, adapterVars, formatVars, adVars, srvVars>>

\* _search_city on every pair of outcomes of its two calls
SearchCityOutcome ==
    [maps \in MapsOutcomes, organic \in OrganicOutcomes |-> SearchCity(maps, organic)]

\* one _search_city(city) task runs to completion; the tasks of asyncio.gather
\* complete in any order
SearchCityReturns(i) ==
    /\ pc = "disc_start"
    /\ dfs_login
    /\ ~city_tasks[i].done
    /\ \E maps \in MapsOutcomes, organic \in OrganicOutcomes :
          city_tasks' = [city_tasks EXCEPT ![i] =
              [done |-> TRUE, maps |-> maps, organic |-> organic,
               result |-> SearchCityOutcome[maps, organic]]]
    /\ UNCHANGED <<pc, dfs_login, metro_cities, domain_city_map, gapVars, pillarVars, trafVars, profVars, leaderVars, flowVars, metroVars, normVars, adapterVars, formatVars, adVars, srvVars>>

\* a plausible slip: the aggregation runs over the tasks finished so far, as a
\* loop over asyncio.as_completed would, without waiting for the rest
AggregateAsCompleted ==
    /\ pc = "disc_start"
    /\ dfs_login
    /\ \E i \in 1..Len(city_tasks) : city_tasks[i].done
    /\ domain_city_map' =
          TopDomains(DomainCities(<<>>, metro_cities,
              [i \in 1..Len(city_tasks) |->
                  IF city_tasks[i].done THEN city_tasks[i].result.val ELSE <<>>]))
    /\ pc' = "disc_done"
    /\ UNCHANGED <<dfs_login, metro_cities, city_tasks, gapVars, pillarVars, trafVars, profVars, leaderVars, flowVars, metroVars, normVars, adapterVars, formatVars, adVars, srvVars>>

\* the gather returns once every task is done (it raises as soon as a task raised);
\* then the aggregation, the sort and the cap
AggregateDiscovery ==
    /\ pc = "disc_start"
    /\ dfs_login
    /\ \/ \A i \in 1..Len(city_tasks) : city_tasks[i].done
       \/ \E i \in 1..Len(city_tasks) : city_tasks[i].done /\ ~city_tasks[i].result.ok
    /\ IF \E i \in 1..Len(city_tasks) : city_tasks[i].done /\ ~city_tasks[i].result.ok
       THEN pc' = "disc_raised" /\ UNCHANGED domain_city_map
       ELSE /\ domain_city_map' =
                 TopDomains(DomainCities(<<>>, metro_cities,
                     [i \in 1..Len(city_tasks) |-> city_tasks[i].result.val]))
            /\ pc' = "disc_done"
    /\ UNCHANGED <<dfs_login, metro_cities, city_tasks, gapVars, pillarVars, trafVars, profVars, leaderVars, flowVars, metroVars, normVars, adapterVars, formatVars, adVars, srvVars>>

NextDiscover ==
    \/ DiscoverWithoutCredentials
    \/ \E i \in 1..Len(metro_cities) : SearchCityReturns(i)
    \/ AggregateDiscovery
SpecDiscover == InitDiscover /\ [][NextDiscover]_vars

(***************************************************************************)
(* Claims about _discover_metro_competitors                                *)
(***************************************************************************)
\* the domains locale k contributed, read from the finished task
Contribution(k) == city_tasks[k].result.val
InContribution(d, k) == \E j \in 1..Len(Contribution(k)) : Contribution(k)[j] = d
LocaleCount(d) == Cardinality({k \in 1..Len(city_tasks) : InContribution(d, k)})
\* first encounter of d: locales in input order, domains in per-locale order
FirstLocale(d) == CHOOSE k \in 1..Len(city_tasks) :
    InContribution(d, k) /\ \A m \in 1..Len(city_tasks) : InContribution(d, m) => k <= m
FirstPosition(d) == CHOOSE j \in 1..Len(Contribution(FirstLocale(d))) :
    Contribution(FirstLocale(d))[j] = d
SeenBefore(d, e) ==
    \/ FirstLocale(d) < FirstLocale(e)
    \/ FirstLocale(d) = FirstLocale(e) /\ FirstPosition(d) < FirstPosition(e)
RankedBefore(d, e) ==
    \/ LocaleCount(d) > LocaleCount(e)
    \/ LocaleCount(d) = LocaleCount(e) /\ SeenBefore(d, e)
Discovered == UNION { {Contribution(k)[j] : j \in 1..Len(Contribution(k))} : k \in 1..Len(city_tasks) }
ResultDomains == {domain_city_map[i].domain : i \in 1..Len(domain_city_map)}

\* C4: the result lists the discovered domains by number of locales, descending;
\* equal counts keep first-encounter order; at most 7 are returned, and they are
\* the first 7 of that order.
C4_DominanceRanking ==
    (pc = "disc_done" /\ dfs_login) =>
        /\ Len(domain_city_map) <= 7
        /\ ResultDomains \subseteq Discovered
        /\ \A i \in 1..Len(domain_city_map) :
              Len(domain_city_map[i].cities) = LocaleCount(domain_city_map[i].domain)
        /\ \A i, j \in 1..Len(domain_city_map) :
              i < j => RankedBefore(domain_city_map[i].domain, domain_city_map[j].domain)
        /\ \A d \in Discovered \ ResultDomains :
              /\ Len(domain_city_map) = 7
              /\ \A i \in 1..Len(domain_city_map) : RankedBefore(domain_city_map[i].domain, d)

\* C4 witness: a domain found in 4 locales is listed above a domain found in 2,
\* although the domain found in 2 was encountered first.
C4_Witness ==
    /\ pc = "disc_done" /\ dfs_login
    /\ \E i, j \in 1..Len(domain_city_map) :
          /\ i < j
          /\ Len(domain_city_map[i].cities) = 4
          /\ Len(domain_city_map[j].cities) = 2
          /\ SeenBefore(domain_city_map[j].domain, domain_city_map[i].domain)

\* the domains of the calls that returned, none for a call that raised
ReturnedBy(maps, organic) ==
    (IF maps.ok THEN maps.val ELSE <<>>) \o (IF organic.ok THEN organic.val ELSE <<>>)
ReturnedDomains(k) == ReturnedBy(city_tasks[k].maps, city_tasks[k].organic)
\* what a locale is to contribute: the first 4 non-excluded of its first 8 domains
ExpectedOf ==
    [maps \in MapsOutcomes, organic \in OrganicOutcomes |->
        Take(LocalDomains(Take(DedupDomains({}, ReturnedBy(maps, organic)), 8)), 4)]
Expected(k) == ExpectedOf[city_tasks[k].maps, city_tasks[k].organic]
LocaleFailed(k) == ~city_tasks[k].maps.ok /\ ~city_tasks[k].organic.ok

C19_FirstFourOfFiltered ==
    (pc = "disc_done" /\ dfs_login) =>
        /\ \A k \in 1..Len(city_tasks) :
              Contribution(k) = Take(LocalDomains(DedupDomains({}, ReturnedDomains(k))), 4)
        /\ \A i \in 1..Len(domain_city_map) : ~IsExcludedDomain(domain_city_map[i].domain)

(***************************************************************************)
(* _fill_traffic_estimates                                                 *)
(*                                                                         *)
(* Numbers are scaled to integers: a click-through rate is held in         *)
(* hundredths (0.28 is 28) and a traffic_estimate in tenths (the data      *)
(* source rounds it to one decimal, so 0.3 is 3 and an estimate of 4       *)
(* clicks is 40).  A rank is None (field absent), an int [int |-> n] or a  *)
(* str [str |-> text].                                                     *)
(***************************************************************************)
\* a plausible slip: the curve rises with the position
CTR_CURVE_Rising == <<2, 3, 3, 4, 5, 7, 8, 11, 15, 28>>

\* _CTR_CURVE for positions 1..10, in hundredths
CTR_CURVE == <<28, 15, 11, 8, 7, 5, 4, 3, 3, 2>>

\* _CTR_CURVE.get(rank_int, 0.01 if rank_int <= 20 else 0), in hundredths
CtrOf(rank_int) ==
    IF rank_int \in 1..Len(CTR_CURVE) THEN CTR_CURVE[rank_int]
    ELSE IF rank_int <= 20 THEN 1 ELSE 0

DecimalDigits == <<"0", "1", "2", "3", "4", "5", "6", "7", "8", "9">>

RECURSIVE DigitsValue(_)
DigitsValue(s) ==
    IF s = <<>> THEN 0
    ELSE 10 * DigitsValue(SubSeq(s, 1, Len(s) - 1))
         + (CHOOSE n \in 0..9 : DecimalDigits[n + 1] = s[Len(s)])

\* int(rank): an int is itself; a str is parsed after stripping whitespace, and
\* anything but decimal digits raises ValueError (signs and underscores, which
\* int() also reads, do not occur in the ranks modelled here)
IntOf(rank) ==
    IF "int" \in DOMAIN rank THEN Returned(rank.int)
    ELSE LET t == Strip(rank.str) IN
         IF t # <<>> /\ \A i \in 1..Len(t) : \E n \in 1..10 : DecimalDigits[n] = t[i]
         THEN Returned(DigitsValue(t))
         ELSE Raised

\* the truth value of kw.get("rank"): None, 0 and "" are false
RankGiven(kw) ==
    /\ Has(kw, "rank")
    /\ IF "int" \in DOMAIN kw.rank THEN kw.rank.int # 0 ELSE kw.rank.str # <<>>

\* a plausible slip: int() in place of round()
Truncated(num, den, up) == num \div den

\* round(num / den) for num >= 0.  The product vol * ctr is a binary float: off a
\* tie it rounds to the nearest integer; on an exact tie of the decimal product the
\* float may sit on, just above or just below the half (50 * 0.07 gives 4,
\* 150 * 0.07 gives 11, 50 * 0.05 gives 2), so either neighbour is possible and
\* `up` says which one.
Rounded(num, den, up) ==
    IF 2 * (num % den) < den THEN num \div den
    ELSE IF 2 * (num % den) > den THEN (num \div den) + 1
    ELSE IF up THEN (num \div den) + 1 ELSE num \div den

\* a plausible slip: the estimate is computed whether or not one is present
FillOneOverwriting(kw, up) ==
    IF ~(RankGiven(kw) /\ OrZero(kw, "search_volume") # 0) THEN kw
    ELSE IF ~IntOf(kw.rank).ok THEN kw
    ELSE LET est_traffic == Rounded(kw.search_volume * CtrOf(IntOf(kw.rank).val), 100, up) IN
         IF est_traffic > 0
         THEN [f \in DOMAIN kw \cup {"traffic_estimate"} |->
                  IF f = "traffic_estimate" THEN 10 * est_traffic ELSE kw[f]]
         ELSE kw

\* one pass of the loop body over kw
FillOne(kw, up) ==
    IF OrZero(kw, "traffic_estimate") > 0 THEN kw
    ELSE IF ~(RankGiven(kw) /\ OrZero(kw, "search_volume") # 0) THEN kw
    ELSE IF ~IntOf(kw.rank).ok THEN kw
    ELSE LET est_traffic == Rounded(kw.search_volume * CtrOf(IntOf(kw.rank).val), 100, up) IN
         IF est_traffic > 0
         THEN [f \in DOMAIN kw \cup {"traffic_estimate"} |->
                  IF f = "traffic_estimate" THEN 10 * est_traffic ELSE kw[f]]
         ELSE kw

\* length of the keyword list passed in
MaxTopKws == 2

\* keyword records as get_domain_ranked_keywords and _parse_sa_keywords build them
\* (the dash placeholder _parse_sa_keywords puts for a missing rank is written "-")
FillRecords == <<
    [keyword |-> <<"p","l","u","m","b","e","r">>, rank |-> [int |-> 1], search_volume |-> 10],
    [keyword |-> <<"p","l","u","m","b","e","r">>, rank |-> [int |-> 5], search_volume |-> 10, traffic_estimate |-> 0],
    [keyword |-> <<"r","o","o","t","e","r">>, rank |-> [int |-> 1], search_volume |-> 1, traffic_estimate |-> 0],
    [keyword |-> <<"r","o","o","t","e","r">>, rank |-> [int |-> 5], search_volume |-> 1, traffic_estimate |-> 0],
    [keyword |-> <<"d","r","a","i","n">>, rank |-> [int |-> 5], search_volume |-> 50, traffic_estimate |-> 0],
    [keyword |-> <<"s","e","w","e","r">>, rank |-> [int |-> 15], search_volume |-> 100, traffic_estimate |-> 0],
    [keyword |-> <<"s","e","w","e","r">>, rank |-> [int |-> 21], search_volume |-> 100, traffic_estimate |-> 0],
    [keyword |-> <<"s","e","w","e","r">>, rank |-> [int |-> 10], search_volume |-> 100],
    [keyword |-> <<"s","e","w","e","r">>, rank |-> [int |-> 0], search_volume |-> 100, traffic_estimate |-> 0],
    [keyword |-> <<"p","i","p","e","s">>, search_volume |-> 100, traffic_estimate |-> 0],
    [keyword |-> <<"p","i","p","e","s">>, rank |-> [int |-> 1], search_volume |-> 0, traffic_estimate |-> 0],
    [keyword |-> <<"l","e","a","k">>, rank |-> [str |-> <<"-">>], search_volume |-> 100],
    [keyword |-> <<"l","e","a","k">>, rank |-> [str |-> <<"3">>], search_volume |-> 100],
    [keyword |-> <<"h","e","a","t","e","r">>, rank |-> [int |-> 1], search_volume |-> 100, traffic_estimate |-> 3],
    [keyword |-> <<"h","e","a","t","e","r">>, rank |-> [int |-> 2], search_volume |-> 100, traffic_estimate |-> 125],
    [keyword |-> <<"f","a","u","c","e","t">>, rank |-> [str |-> <<"4">>], search_volume |-> 300, traffic_estimate |-> 1],
    [keyword |-> <<"f","a","u","c","e","t">>, search_volume |-> 300, traffic_estimate |-> 60],
    [keyword |-> <<"d","r","a","i","n">>, rank |-> [int |-> 1], search_volume |-> 50, traffic_estimate |-> 0],
    [keyword |-> <<"v","a","l","v","e">>, rank |-> [int |-> 1], search_volume |-> 2],
    [keyword |-> <<"v","a","l","v","e">>, rank |-> [int |-> 5], search_volume |-> 2] >>

InitTraffic ==
    /\ pc = "fill_start"
    /\ \E n \in 1..MaxTopKws :
         top_kws \in [1..n -> {FillRecords[i] : i \in 1..Len(FillRecords)}]
    /\ filled_kws = <<>>
    /\ GapIdle /\ PillarIdle /\ DiscIdle /\ ProfileIdle /\ LeaderIdle /\ WorkflowIdle /\ MetroIdle /\ NormIdle /\ AdapterIdle /\ FormatIdle /\ AdValueIdle /\ ServerIdle

\* the whole call: the loop over kws, then `return kws`
FillTrafficEstimates ==
    /\ pc = "fill_start"
    /\ \E up \in [1..Len(top_kws) -> BOOLEAN] :
          filled_kws' = [i \in 1..Len(top_kws) |-> FillOne(top_kws[i], up[i])]
    /\ pc' = "fill_done"
    /\ UNCHANGED <<top_kws, gapVars, pillarVars, discVars, profVars, leaderVars, flowVars, metroVars, normVars, adapterVars, formatVars, adVars, srvVars>>

SpecTraffic == InitTraffic /\ [][FillTrafficEstimates]_vars

(***************************************************************************)
(* Claims about _fill_traffic_estimates                                    *)
(***************************************************************************)
\* the curve as the specification words it, in hundredths
StatedCtr(rank) ==
    CASE rank = 1 -> 28 [] rank = 2 -> 15 [] rank = 3 -> 11 [] rank = 4 -> 8
      [] rank = 5 -> 7 [] rank = 6 -> 5 [] rank = 7 -> 4 [] rank = 8 -> 3
      [] rank = 9 -> 3 [] rank = 10 -> 2 [] rank \in 11..20 -> 1 [] OTHER -> 0

\* a record the backfill is stated for: no estimate yet, a position and a volume
NeedsEstimate(kw) ==
    /\ OrZero(kw, "traffic_estimate") = 0
    /\ Has(kw, "rank") /\ "int" \in DOMAIN kw.rank /\ kw.rank.int >= 1
    /\ OrZero(kw, "search_volume") > 0

\* search_volume x CTR(rank), in hundredths of a click
StatedProduct(kw) == kw.search_volume * StatedCtr(kw.rank.int)

SameButEstimate(kw, out) ==
    /\ DOMAIN out = DOMAIN kw \cup {"traffic_estimate"}
    /\ \A f \in DOMAIN kw \ {"traffic_estimate"} : out[f] = kw[f]

\* C8 as stated: every such record ends with traffic_estimate = search_volume x CTR(rank).
C8_EstimateIsProduct ==
    pc = "fill_done" =>
        \A i \in 1..Len(top_kws) :
            NeedsEstimate(top_kws[i]) =>
                10 * OrZero(filled_kws[i], "traffic_estimate") = StatedProduct(top_kws[i])

\* C8 amended: every such record ends with traffic_estimate = the product rounded to
\* a nearest whole number when that is at least 1, and is left as it was when the
\* product rounds to 0.
C8_EstimateIsRoundedProduct ==
    pc = "fill_done" =>
        \A i \in 1..Len(top_kws) :
            NeedsEstimate(top_kws[i]) =>
                LET kw == top_kws[i]
                    out == filled_kws[i]
                    clicks == OrZero(out, "traffic_estimate") \div 10
                IN  \/ /\ out = kw
                       /\ StatedProduct(kw) <= 50
                    \/ /\ SameButEstimate(kw, out)
                       /\ out.traffic_estimate = 10 * clicks
                       /\ clicks >= 1
                       /\ 100 * clicks - StatedProduct(kw) \in -50..50

\* C8 witness: a record was given an estimate that is the product rounded up
\* (10 searches at position 1: 2.8 becomes 3).
C8_Witness ==
    /\ pc = "fill_done"
    /\ \E i \in 1..Len(top_kws) :
          /\ NeedsEstimate(top_kws[i])
          /\ StatedProduct(top_kws[i]) = 280
          /\ filled_kws[i].traffic_estimate = 30

\* C13: a record whose traffic_estimate is already greater than zero keeps that
\* traffic_estimate (and every other field), whatever its rank and search_volume.
C13_PresentEstimateKept ==
    pc = "fill_done" =>
        /\ Len(filled_kws) = Len(top_kws)
        /\ \A i \in 1..Len(top_kws) :
              OrZero(top_kws[i], "traffic_estimate") > 0 =>
                  /\ Has(filled_kws[i], "traffic_estimate")
                  /\ filled_kws[i].traffic_estimate = top_kws[i].traffic_estimate
                  /\ filled_kws[i] = top_kws[i]

\* C13 witness: one call in which a record without an estimate was given one and
\* a record with an estimate of 0.3, for which position 1 and 100 searches would
\* give 28, kept its 0.3.
C13_Witness ==
    /\ pc = "fill_done"
    /\ \E i, j \in 1..Len(top_kws) :
          /\ OrZero(top_kws[i], "traffic_estimate") = 0
          /\ OrZero(filled_kws[i], "traffic_estimate") > 0
          /\ OrZero(top_kws[j], "traffic_estimate") = 3
          /\ Has(top_kws[j], "rank") /\ top_kws[j].rank = [int |-> 1]
          /\ top_kws[j].search_volume = 100
          /\ filled_kws[j].traffic_estimate = 3

\* two input records that differ only in rank, position 1 against position 5,
\* both without a traffic_estimate (absent or 0)
RankOneRankFive(a, b) ==
    /\ DOMAIN a = DOMAIN b
    /\ \A f \in DOMAIN a \ {"rank"} : a[f] = b[f]
    /\ Has(a, "rank") /\ a.rank = [int |-> 1] /\ b.rank = [int |-> 5]
    /\ OrZero(a, "traffic_estimate") = 0

\* C14 as stated: for every search_volume the record at position 1 ends with a
\* strictly greater traffic_estimate than the record at position 5.
C14_RankOneStrictlyGreater ==
    pc = "fill_done" =>
        \A i, j \in 1..Len(top_kws) :
            RankOneRankFive(top_kws[i], top_kws[j]) =>
                OrZero(filled_kws[i], "traffic_estimate") > OrZero(filled_kws[j], "traffic_estimate")

\* largest search_volume the comparison is computed for
MaxSearches == 300

\* the record of a keyword at the given position with the given search_volume
\* and no traffic_estimate
RecordAt(position, searches) ==
    [keyword |-> <<"v","a","l","v","e">>, rank |-> [int |-> position], search_volume |-> searches]

\* C14 amended: that holds for a search_volume of 2 or more (an estimate that is
\* not set counting as 0); with a search_volume of 0 or 1 neither record is given
\* an estimate, both are left as they were.
C14_RankOneGreaterFromTwoSearches ==
    pc = "fill_done" =>
        /\ \A i, j \in 1..Len(top_kws) :
              RankOneRankFive(top_kws[i], top_kws[j]) =>
                  IF OrZero(top_kws[i], "search_volume") >= 2
                  THEN OrZero(filled_kws[i], "traffic_estimate") > OrZero(filled_kws[j], "traffic_estimate")
                  ELSE filled_kws[i] = top_kws[i] /\ filled_kws[j] = top_kws[j]
        /\ \A searches \in 2..MaxSearches : \A up1, up5 \in BOOLEAN :
              OrZero(FillOne(RecordAt(1, searches), up1), "traffic_estimate")
                  > OrZero(FillOne(RecordAt(5, searches), up5), "traffic_estimate")

\* C14 witness: a pair with 50 searches, where position 5 is the tie 3.5 and was
\* rounded up to 4, against 14 at position 1.
C14_Witness ==
    /\ pc = "fill_done"
    /\ \E i, j \in 1..Len(top_kws) :
          /\ RankOneRankFive(top_kws[i], top_kws[j])
          /\ top_kws[i].search_volume = 50
          /\ filled_kws[i].traffic_estimate = 140
          /\ filled_kws[j].traffic_estimate = 40

(***************************************************************************)
(* _profile_competitors                                                    *)
(*                                                                         *)
(* get_domain_rank_overview is imported from utils/dataforseo.py but its   *)
(* definition is not among the sources; it is modelled from the            *)
(* specification's interface (an overview of keyword count, estimated      *)
(* traffic and traffic value), with the keys _fetch_one reads.  etv and    *)
(* etv_cost are held in tenths, and int() truncates them.                  *)
(*                                                                         *)
(* A Search Atlas response is held with its Python type: [str |-> r] is    *)
(* text (r: the keyword records the text spells out), [list |-> r] a list  *)
(* of keyword items.                                                       *)
(***************************************************************************)
OverviewOutcomes ==
    { Raised,
      Returned([keywords |-> 120, etv |-> 9005, etv_cost |-> 40000]),
      Returned([keywords |-> 40, etv |-> 3000]) }

\* what get_domain_ranked_keywords can do: raise, return 2 records, return 3
RankedOutcomes ==
    { Raised,
      Returned(<<FillRecords[1], FillRecords[14]>>),
      Returned(<<FillRecords[1], FillRecords[6], FillRecords[15]>>) }

\* the keyword items a Search Atlas reply is about
SaItems == <<
    [keyword |-> "leak repair", position |-> 3, search_volume |-> 100],
    [keyword |-> "leak detection", position |-> 12, search_volume |-> 50, traffic |-> 4] >>

\* sa_call: raises, or returns content[0]["text"] / str(result): always a str
SaCallOutcomes ==
    { Raised, Returned([str |-> <<>>]), Returned([str |-> SaItems]) }

\* one item of _parse_sa_keywords (cpc, which no table of the profile reads, is left out)
SaRecord(item) ==
    [keyword |-> item.keyword,
     rank |-> IF OrZero(item, "position") # 0 THEN [int |-> item.position] ELSE [str |-> <<"-">>],
     search_volume |-> OrZero(item, "search_volume")]
    @@ (IF OrZero(item, "traffic") # 0
        THEN [traffic_estimate |-> 10 * item.traffic] ELSE <<>>)

\* _parse_sa_keywords: nothing for an empty response and nothing for a str
ParseSaKeywords(sa_response) ==
    IF "str" \in DOMAIN sa_response THEN <<>>
    ELSE LET items == Take(sa_response.list, 15) IN
         [i \in 1..Len(items) |-> SaRecord(items[i])]

\* _fetch_one up to the fallback decision: the primary records, [] for a failure
PrimaryKws(ranked) == ExceptionToEmpty(ranked).val

\* _fetch_one: the profile it returns, given what its calls did (sa is read
\* only when the fallback call is made)
FetchOne(domain, cities, overview, ranked, sa) ==
    LET ov == IF overview.ok THEN overview.val
              ELSE [keywords |-> 0, etv |-> 0, etv_cost |-> 0]
        sa_kws == IF Len(PrimaryKws(ranked)) < 3 /\ sa.ok
                  THEN ParseSaKeywords(sa.val) ELSE <<>>
    IN  [domain |-> domain,
         cities |-> cities,
         keywords |-> OrZero(ov, "keywords"),
         traffic |-> OrZero(ov, "etv") \div 10,
         etv_cost |-> OrZero(ov, "etv_cost") \div 10,
         top_kws |-> IF sa_kws # <<>> THEN sa_kws ELSE PrimaryKws(ranked)]

\* number of domains profiled
MaxDomains == 2

ProfileInputs == <<
    [domain |-> <<"a","c","e",".","c","o","m">>, cities |-> <<"Phoenix", "Mesa">>],
    [domain |-> <<"r","o","t","o","r","o","o","t","e","r",".","c","o","m">>, cities |-> <<"Phoenix">>],
    [domain |-> <<"b","o","b",".","c","o","m">>, cities |-> <<"Tempe">>],
    [domain |-> <<"c","a","t",".","c","o","m">>, cities |-> <<"Mesa">>] >>

InitProfile ==
    /\ pc = "prof_start"
    /\ \E n \in 0..MaxDomains : profile_domains = Take(ProfileInputs, n)
    /\ fetch_tasks = [i \in 1..Len(profile_domains) |-> [done |-> FALSE]]
    /\ profiles = <<>>
    /\ GapIdle /\ PillarIdle /\ DiscIdle /\ TrafficIdle /\ LeaderIdle /\ WorkflowIdle /\ MetroIdle /\ NormIdle /\ AdapterIdle /\ FormatIdle /\ AdValueIdle /\ ServerIdle

\* `if not domain_city_map: return []`
ProfileNothing ==
    /\ pc = "prof_start"
    /\ profile_domains = <<>>
    /\ pc' = "prof_done"
    /\ UNCHANGED <<profVars, gapVars, pillarVars, discVars, trafVars, leaderVars, flowVars, metroVars, normVars, adapterVars, formatVars, adVars, srvVars>>

\* one _fetch_one(domain, cities) task runs to completion: the overview and the
\* ranked-keywords call, then the Search Atlas call when fewer than 3 records came
FetchOneReturns(i) ==
    /\ pc = "prof_start"
    /\ ~fetch_tasks[i].done
    /\ \E overview \in OverviewOutcomes, ranked \in RankedOutcomes :
        \E sa \in IF Len(PrimaryKws(ranked)) < 3 THEN SaCallOutcomes ELSE {Raised} :
          fetch_tasks' = [fetch_tasks EXCEPT ![i] =
              [done |-> TRUE, overview |-> overview, ranked |-> ranked,
               sa_calls |-> IF Len(PrimaryKws(ranked)) < 3 THEN <<sa>> ELSE <<>>,
               profile |-> FetchOne(profile_domains[i].domain, profile_domains[i].cities,
                                    overview, ranked, sa)]]
    /\ UNCHANGED <<pc, profile_domains, profiles, gapVars, pillarVars, discVars, trafVars, leaderVars, flowVars, metroVars, normVars, adapterVars, formatVars, adVars, srvVars>>

\* a plausible slip: the profiles are returned in the order of the input map
GatheredProfiles(ps, up) ==
    [i \in 1..Len(ps) |-> [ps[i] EXCEPT !.top_kws = [j \in 1..Len(@) |-> FillOne(@[j], up)]]]

\* a plausible slip: a profile without keyword records is left out
ProfilesWithKeywords(ps, up) ==
    SortedDesc([i \in 1..Len(SelectSeq(ps, LAMBDA p : p.top_kws # <<>>)) |->
        <<SelectSeq(ps, LAMBDA p : p.top_kws # <<>>)[i].traffic,
          SelectSeq(ps, LAMBDA p : p.top_kws # <<>>)[i]>>])

\* the loop over the gathered profiles and the sort: the traffic estimates of each
\* keyword list are backfilled (none of the lists modelled has a rounding tie),
\* then out.sort(key=traffic, reverse=True)
SortedProfiles(ps, up) ==
    SortedDesc([i \in 1..Len(ps) |->
        <<ps[i].traffic,
          [ps[i] EXCEPT !.top_kws = [j \in 1..Len(@) |-> FillOne(@[j], up)]]>>])

\* the gather has returned every profile
CollectProfiles ==
    /\ pc = "prof_start"
    /\ profile_domains # <<>>
    /\ \A i \in 1..Len(fetch_tasks) : fetch_tasks[i].done
    /\ \E up \in BOOLEAN :
          profiles' = SortedProfiles([i \in 1..Len(fetch_tasks) |-> fetch_tasks[i].profile], up)
    /\ pc' = "prof_done"
    /\ UNCHANGED <<profile_domains, fetch_tasks, gapVars, pillarVars, discVars, trafVars, leaderVars, flowVars, metroVars, normVars, adapterVars, formatVars, adVars, srvVars>>

NextProfile ==
    \/ ProfileNothing
    \/ \E i \in 1..Len(profile_domains) : FetchOneReturns(i)
    \/ CollectProfiles
SpecProfile == InitProfile /\ [][NextProfile]_vars

(***************************************************************************)
(* Claims about _profile_competitors                                       *)
(***************************************************************************)
\* the keyword records a Search Atlas reply carries
KeywordData(sa_response) ==
    LET items == IF "str" \in DOMAIN sa_response THEN sa_response.str ELSE sa_response.list
    IN  [i \in 1..Len(items) |-> SaRecord(items[i])]

PrimaryRecords(task) == IF task.ranked.ok THEN task.ranked.val ELSE <<>>

\* C9 as stated: fewer than 3 primary records (a failure included) mean one fallback
\* call, 3 or more mean none; when the fallback returns keyword data the profile's
\* keyword list is exactly that data, and otherwise it is the primary records.
C9_SparseFallbackReplaces ==
    \A i \in 1..Len(fetch_tasks) :
        fetch_tasks[i].done =>
            LET task == fetch_tasks[i] IN
            /\ Len(task.sa_calls) = IF Len(PrimaryRecords(task)) < 3 THEN 1 ELSE 0
            /\ IF /\ task.sa_calls # <<>>
                  /\ task.sa_calls[1].ok
                  /\ KeywordData(task.sa_calls[1].val) # <<>>
               THEN task.profile.top_kws = KeywordData(task.sa_calls[1].val)
               ELSE task.profile.top_kws = PrimaryRecords(task)

\* C22: the returned profiles are in non-increasing order of traffic, and the
\* first has the highest traffic of all the domains profiled.
C22_SortedByTraffic ==
    (pc = "prof_done" /\ profile_domains # <<>>) =>
        /\ \A i, j \in 1..Len(profiles) : i < j => profiles[i].traffic >= profiles[j].traffic
        /\ \A k \in 1..Len(fetch_tasks) : profiles[1].traffic >= fetch_tasks[k].profile.traffic

\* C22 witness: the second domain of the input map has more traffic than the
\* first, and it is returned first.
C22_Witness ==
    /\ pc = "prof_done"
    /\ Len(profiles) = 2
    /\ fetch_tasks[1].profile.traffic < fetch_tasks[2].profile.traffic
    /\ profiles[1].domain = profile_domains[2].domain
    /\ profiles[1].traffic > profiles[2].traffic

\* every call of the fetch of domain k failed: the overview, the ranked-keywords
\* call and the fallback call that follows an empty keyword list
AllCallsFailed(k) ==
    /\ ~fetch_tasks[k].overview.ok
    /\ ~fetch_tasks[k].ranked.ok
    /\ fetch_tasks[k].sa_calls = <<Raised>>

\* C29: whatever subset of the calls fails, the result holds exactly one profile
\* for each domain of the input map, with the cities the map gives for it; a
\* domain whose calls all failed has keywords, traffic and etv_cost 0 and no
\* keyword records.
C29_OneProfilePerDomain ==
    pc = "prof_done" =>
        /\ Len(profiles) = Len(profile_domains)
        /\ \A k \in 1..Len(profile_domains) :
              /\ Cardinality({i \in 1..Len(profiles) :
                                 profiles[i].domain = profile_domains[k].domain}) = 1
              /\ \A i \in 1..Len(profiles) :
                    profiles[i].domain = profile_domains[k].domain =>
                        /\ profiles[i].cities = profile_domains[k].cities
                        /\ AllCallsFailed(k) =>
                              /\ profiles[i].keywords = 0
                              /\ profiles[i].traffic = 0
                              /\ profiles[i].etv_cost = 0
                              /\ profiles[i].top_kws = <<>>

\* C29 witness: every call of the first domain failed and only the overview of
\* the second, and both domains have a profile.
C29_Witness ==
    /\ pc = "prof_done"
    /\ Len(profile_domains) = 2
    /\ AllCallsFailed(1)
    /\ ~fetch_tasks[2].overview.ok /\ fetch_tasks[2].ranked.ok
    /\ Len(profiles) = 2
    /\ \E i \in 1..2 : profiles[i].domain = profile_domains[2].domain /\ profiles[i].top_kws # <<>>

(***************************************************************************)
(* run_prospect_audit, phase 3: the market leader                          *)
(***************************************************************************)
\* a plausible slip: the first profile, chain or not
MarketLeaderFirst(ps) == IF ps # <<>> THEN <<ps[1]>> ELSE <<>>

\* local_competitors[0] if local_competitors else
\*     (competitor_profiles[0] if competitor_profiles else None)
MarketLeader(ps) ==
    LET local_competitors == SelectSeq(ps, LAMBDA p : ~IsLargeChain(p.domain))
    IN  IF local_competitors # <<>> THEN <<local_competitors[1]>>
        ELSE IF ps # <<>> THEN <<ps[1]>>
        ELSE <<>>

\* number of competitor profiles
MaxProfiles == 3

\* profiles as _fetch_one builds them
LeaderCandidates == {
    [domain |-> <<"r","o","t","o","r","o","o","t","e","r",".","c","o","m">>, cities |-> <<"Phoenix", "Mesa">>, keywords |-> 900,
     traffic |-> 5000, etv_cost |-> 20000, top_kws |-> <<>>],
    [domain |-> <<"w","w","w",".","M","r","R","o","o","t","e","r",".","c","o","m"," ">>, cities |-> <<"Mesa">>, keywords |-> 300,
     traffic |-> 800, etv_cost |-> 3000, top_kws |-> <<>>],
    [domain |-> <<"p","h","o","e","n","i","x",".","r","o","t","o","-","r","o","o","t","e","r",".","c","o","m">>, cities |-> <<"Phoenix">>, keywords |-> 40,
     traffic |-> 0, etv_cost |-> 0, top_kws |-> <<>>],
    [domain |-> <<"a","c","e",".","c","o","m">>, cities |-> <<"Phoenix">>, keywords |-> 120,
     traffic |-> 900, etv_cost |-> 4000, top_kws |-> <<>>],
    [domain |-> <<"b","o","b",".","c","o","m">>, cities |-> <<"Tempe">>, keywords |-> 0,
     traffic |-> 0, etv_cost |-> 0, top_kws |-> <<>>] }

\* competitor_profiles is what _profile_competitors returned: sorted by traffic
InitLeader ==
    /\ pc = "leader_start"
    /\ \E n \in 0..MaxProfiles : \E ps \in [1..n -> LeaderCandidates] :
          competitor_profiles = SortedDesc([i \in 1..n |-> <<ps[i].traffic, ps[i]>>])
    /\ market_leader = <<>>
    /\ GapIdle /\ PillarIdle /\ DiscIdle /\ TrafficIdle /\ ProfileIdle /\ WorkflowIdle /\ MetroIdle /\ NormIdle /\ AdapterIdle /\ FormatIdle /\ AdValueIdle /\ ServerIdle

SelectMarketLeader ==
    /\ pc = "leader_start"
    /\ market_leader' = MarketLeader(competitor_profiles)
    /\ pc' = "leader_done"
    /\ UNCHANGED <<competitor_profiles, gapVars, pillarVars, discVars, trafVars, profVars, flowVars, metroVars, normVars, adapterVars, formatVars, adVars, srvVars>>

SpecLeader == InitLeader /\ [][SelectMarketLeader]_vars

(***************************************************************************)
(* Claims about the market leader                                          *)
(***************************************************************************)
ChainAt(i) == IsLargeChain(competitor_profiles[i].domain)

EnvNames == {"DATAFORSEO_LOGIN", "DATAFORSEO_PASSWORD", "SEARCHATLAS_API_KEY"}

WorkflowInputs == {
    [domain |-> <<"P","r","o","s","p","e","c","t",".","c","o","m"," ">>, service |-> <<"p","l","u","m","b","e","r">>,
     location |-> <<"S","m","a","l","l","t","o","w","n",","," ","Z","Z">>, competitor_domains |-> <<>>, water_treatment |-> FALSE],
    [domain |-> <<"P","r","o","s","p","e","c","t",".","c","o","m"," ">>, service |-> <<"p","l","u","m","b","e","r">>,
     location |-> <<"S","m","a","l","l","t","o","w","n",","," ","Z","Z">>, water_treatment |-> TRUE,
     competitor_domains |-> << <<" ","W","W","W",".","R","i","v","a","l",".","c","o","m">>, <<"a","c","e",".","c","o","m">>, <<" ">> >>],
    [domain |-> <<" "," ">>, service |-> <<"p","l","u","m","b","e","r">>,
     location |-> <<"S","m","a","l","l","t","o","w","n",","," ","Z","Z">>, competitor_domains |-> <<>>, water_treatment |-> FALSE],
    [domain |-> <<"p","r","o","s","p","e","c","t",".","c","o","m">>, service |-> <<>>,
     location |-> <<>>, competitor_domains |-> <<>>, water_treatment |-> FALSE] }

\* location.split(",")[0].strip()
City(location) ==
    LET commas == {i \in 1..Len(location) : location[i] = ","}
    IN  Strip(IF commas = {} THEN location
              ELSE SubSeq(location, 1, (CHOOSE i \in commas : \A j \in commas : i <= j) - 1))

\* a plausible slip: run_keyword_gap checking the login only
OnlyDfsLogin(env) == "DATAFORSEO_LOGIN" \in env

\* run_keyword_gap: `if not dfs_login or not dfs_pass` is false
HasDfsCredentials(env) == "DATAFORSEO_LOGIN" \in env /\ "DATAFORSEO_PASSWORD" \in env

\* a DataForSEO call: _auth_header raises ValueError unless login and password are set
DfsCall(env, outcomes) ==
    IF {"DATAFORSEO_LOGIN", "DATAFORSEO_PASSWORD"} \subseteq env THEN outcomes ELSE {Raised}

\* a Search Atlas call: _api_key raises ValueError unless the key is set
SaCall(env, outcomes) ==
    IF "SEARCHATLAS_API_KEY" \in env THEN outcomes ELSE {Raised}

\* what get_keyword_search_volumes can do
VolumeOutcomes ==
    { Raised,
      Returned(<<[keyword |-> <<"p","l","u","m","b","e","r"," ","s","m","a","l","l","t","o","w","n">>, search_volume |-> 90, cpc |-> 12]>>) }

\* what get_bulk_keyword_difficulty can do
DifficultyOutcomes ==
    { Raised,
      Returned(<<[keyword |-> <<"p","l","u","m","b","e","r"," ","s","m","a","l","l","t","o","w","n">>, keyword_difficulty |-> 35]>>) }

\* a plausible slip: a call without its try/except
CatchesNothing(call) == FALSE

\* `except Exception` and gather(return_exceptions=True): every failure of a call
\* is an Exception and is caught
CaughtByExcept(call) == ~call.ok

Called(name, outcome) == [call |-> name, ok |-> outcome.ok]
Token(kind) == [type |-> "token", text |-> kind]

\* the part of the generator between two yields: it makes `made`, and either one
\* of the failures leaves the generator or the locals are bound and the text yielded
Phase(made, bound, yielded, next) ==
    /\ calls' = calls \o made
    /\ IF \E i \in 1..Len(made) : ~made[i].ok /\ ~CaughtByExcept(made[i])
       THEN /\ raised' = "data_source"
            /\ pc' = "wf_raised"
            /\ UNCHANGED <<locals, output>>
       ELSE /\ locals' = bound @@ locals
            /\ output' = output \o [i \in 1..Len(yielded) |-> Token(yielded[i])]
            /\ pc' = next
            /\ UNCHANGED raised
    /\ UNCHANGED <<workflow_id, environ, inputs, jobs,
                   gapVars, pillarVars, discVars, trafVars, profVars, leaderVars,
                   metroVars, normVars, adapterVars, formatVars, adVars, srvVars>>

InitWorkflow ==
    /\ pc = "wf_start"
    /\ workflow_id \in {"keyword-gap", "prospect-audit"}
    /\ environ \in SUBSET EnvNames
    /\ inputs \in WorkflowInputs
    /\ locals = <<>>
    /\ calls = <<>>
    /\ output = <<>>
    /\ raised = "none"
    /\ jobs = <<>>
    /\ GapIdle /\ PillarIdle /\ DiscIdle /\ TrafficIdle /\ ProfileIdle /\ LeaderIdle /\ MetroIdle /\ NormIdle /\ AdapterIdle /\ FormatIdle /\ AdValueIdle /\ ServerIdle

\* event_stream routes the request and the generator runs to its first status line
StartWorkflow ==
    /\ pc = "wf_start"
    /\ IF workflow_id = "prospect-audit" /\ "SEARCHATLAS_API_KEY" \notin environ
       THEN output' = <<[type |-> "error"]>> /\ pc' = "wf_closed"
       ELSE IF Lower(Strip(inputs.domain)) = <<>>
       THEN output' = <<Token("no_domain")>> /\ pc' = "wf_generated"
       ELSE IF workflow_id = "keyword-gap" /\ ~HasDfsCredentials(environ)
       THEN output' = <<Token("credentials_notice")>> /\ pc' = "wf_generated"
       ELSE /\ output' = <<Token("pulling_data")>>
            /\ pc' = IF workflow_id = "keyword-gap" THEN "kg_phase2" ELSE "pa_phase1"
    /\ UNCHANGED <<workflow_id, environ, inputs, locals, calls, raised, jobs,
                   gapVars, pillarVars, discVars, trafVars, profVars, leaderVars,
                   metroVars, normVars, adapterVars, formatVars, adVars, srvVars>>

\* run_keyword_gap, phase 2: the client's keywords and the competitor domains
KgResolveCompetitors ==
    /\ pc = "kg_phase2"
    /\ \E client \in DfsCall(environ, RankedOutcomes),
          maps \in DfsCall(environ, MapsOutcomes),
          organic \in DfsCall(environ, OrganicOutcomes) :
        LET given == inputs.competitor_domains # <<>>
            discover == ~given /\ Strip(inputs.service) # <<>> /\ Strip(inputs.location) # <<>>
            raw_list == [i \in 1..Len(inputs.competitor_domains) |->
                            RemoveAll(Lower(Strip(inputs.competitor_domains[i])), <<"w","w","w",".">>)]
            research == ResearchCompetitors(maps, organic)
            competitor_domains ==
                IF given THEN Take(SelectSeq(raw_list, LAMBDA d : d # <<>>), 5)
                ELSE IF discover /\ research.ok THEN Take(research.val, 5)
                ELSE <<>>
        IN  Phase(<<Called("client_keywords", client)>>
                      \o (IF discover
                          THEN <<Called("local_pack", maps), Called("organic_serp", organic)>>
                          ELSE <<>>),
                  [client_keywords |-> ExceptionToEmpty(client).val,
                   competitor_domains |-> competitor_domains],
                  IF ~given /\ competitor_domains # <<>> THEN <<"competitors_detected">>
                  ELSE IF competitor_domains = <<>> THEN <<"no_competitors">> ELSE <<>>,
                  "kg_phase3")

\* run_keyword_gap, phases 3 to 5: the competitors' keywords and the seed volumes,
\* the gap, the volumes of the gap keywords
KgComputeGap ==
    /\ pc = "kg_phase3"
    /\ LET top_competitors == Take(locals.competitor_domains, 3)
           seeded == Strip(inputs.service) # <<>> /\ City(inputs.location) # <<>>
       IN  \E results \in [1..Len(top_competitors) -> DfsCall(environ, RankedOutcomes)],
              seed \in DfsCall(environ, VolumeOutcomes),
              volume \in DfsCall(environ, VolumeOutcomes) :
           LET kw_sets ==
                   [i \in 1..Len(top_competitors) |->
                       <<top_competitors[i], ExceptionToEmpty(results[i]).val>>]
               gap == ComputeKeywordGap(locals.client_keywords, kw_sets)
           IN  Phase([i \in 1..Len(top_competitors) |-> Called("competitor_keywords", results[i])]
                         \o (IF seeded THEN <<Called("seed_volumes", seed)>> ELSE <<>>)
                         \o (IF gap # <<>> THEN <<Called("gap_volumes", volume)>> ELSE <<>>),
                     [competitor_keyword_sets |-> kw_sets,
                      seed_volumes |-> IF seeded THEN ExceptionToEmpty(seed).val ELSE <<>>,
                      gap_keywords |-> gap,
                      gap_volumes |-> IF gap # <<>>
                                      THEN ExceptionToEmpty(volume).val ELSE <<>>],
                     (IF top_competitors # <<>> THEN <<"analyzing">> ELSE <<>>)
                         \o <<"gap_complete">>,
                     "wf_report")

\* run_prospect_audit, phase 1: the prospect's Search Atlas data (five calls, each
\* in its own try/except), the seed keyword volumes, the competitor discovery
PaGatherMarket ==
    /\ pc = "pa_phase1"
    /\ LET located == Strip(inputs.location) # <<>>
           has_creds == "DATAFORSEO_LOGIN" \in environ
           cities == <<Title(City(inputs.location))>>
       IN  \E sa \in SaCall(environ, SaCallOutcomes),
              vol \in DfsCall(environ, VolumeOutcomes),
              maps \in DfsCall(environ, MapsOutcomes),
              organic \in DfsCall(environ, OrganicOutcomes) :
           Phase(<<Called("sa_data", sa)>>
                     \o (IF located THEN <<Called("keyword_volumes", vol)>> ELSE <<>>)
                     \o (IF has_creds
                         THEN <<Called("local_pack", maps), Called("organic_serp", organic)>>
                         ELSE <<>>),
                 [sa_data |-> [available |-> sa.ok],
                  keyword_volumes |-> IF located THEN ExceptionToEmpty(vol).val ELSE <<>>,
                  domain_city_map |->
                      IF has_creds
                      THEN TopDomains(DomainCities(<<>>, cities, <<SearchCity(maps, organic).val>>))
                      ELSE <<>>],
                 <<"pulling_traffic">>,
                 "pa_phase2")

\* run_prospect_audit, phase 2 and the water-treatment pass: the competitor
\* profiles, the prospect's overview, the keyword difficulty; then phase 3, the
\* market leader
PaProfileMarket ==
    /\ pc = "pa_phase2"
    /\ LET dcm == locals.domain_city_map
           scored == /\ Strip(inputs.location) # <<>>
                     /\ \E i \in 1..Len(locals.keyword_volumes) :
                           /\ OrEmpty(locals.keyword_volumes[i], "keyword") # <<>>
                           /\ OrZero(locals.keyword_volumes[i], "search_volume") > 0
       IN  \E overview \in DfsCall(environ, OverviewOutcomes),
              ranked \in DfsCall(environ, RankedOutcomes),
              sa \in SaCall(environ, SaCallOutcomes),
              prospect \in DfsCall(environ, OverviewOutcomes),
              difficulty \in DfsCall(environ, DifficultyOutcomes),
              water \in {Raised, Returned(<<>>)},
              up \in BOOLEAN :
           LET fetched == [i \in 1..Len(dcm) |->
                              FetchOne(dcm[i].domain, dcm[i].cities, overview, ranked, sa)]
               competitors == SortedProfiles(fetched, up)
           IN  Phase((IF dcm # <<>>
                      THEN <<Called("rank_overview", overview), Called("ranked_keywords", ranked)>>
                               \o (IF Len(PrimaryKws(ranked)) < 3
                                   THEN <<Called("sa_fallback", sa)>> ELSE <<>>)
                      ELSE <<>>)
                         \o <<Called("prospect_rank", prospect)>>
                         \o (IF scored THEN <<Called("keyword_difficulty", difficulty)>> ELSE <<>>)
                         \o (IF inputs.water_treatment
                             THEN <<Called("water_treatment", water)>> ELSE <<>>),
                     [competitor_profiles |-> competitors,
                      prospect_rank |-> IF prospect.ok THEN prospect.val
                                        ELSE [keywords |-> 0, etv |-> 0, etv_cost |-> 0],
                      keyword_difficulty |-> IF scored THEN ExceptionToEmpty(difficulty).val
                                             ELSE <<>>,
                      wt_profiles |-> <<>>,
                      market_leader |-> MarketLeader(competitors)],
                     <<"building_analysis">>,
                     "wf_report")

\* both workflows end with client.messages.stream: the report is streamed, or the
\* model call fails before or after the first text
StreamReport ==
    /\ pc = "wf_report"
    /\ \E stream \in {"complete", "fails_at_once", "fails_midway"} :
          /\ output' = IF stream = "fails_at_once" THEN output
                        ELSE Append(output, Token("report"))
          /\ raised' = IF stream = "complete" THEN raised ELSE "anthropic"
          /\ pc' = IF stream = "complete" THEN "wf_generated" ELSE "wf_raised"
    /\ UNCHANGED <<workflow_id, environ, inputs, locals, calls, jobs,
                   gapVars, pillarVars, discVars, trafVars, profVars, leaderVars,
                   metroVars, normVars, adapterVars, formatVars, adVars, srvVars>>

\* event_stream's except clauses: one error event
StreamError ==
    /\ pc = "wf_raised"
    /\ output' = Append(output, [type |-> "error"])
    /\ pc' = "wf_closed"
    /\ UNCHANGED <<workflow_id, environ, inputs, locals, calls, raised, jobs,
                   gapVars, pillarVars, discVars, trafVars, profVars, leaderVars,
                   metroVars, normVars, adapterVars, formatVars, adVars, srvVars>>

\* the generator is exhausted: save_job, generate_docx and update_docx_path, then
\* the done event; a failure of save_job or generate_docx ends in the except clause
CloseStream ==
    /\ pc = "wf_generated"
    /\ \E persist \in {"saved", "save_job_raised", "generate_docx_raised"} :
          /\ jobs' = IF persist = "save_job_raised" THEN jobs
                      ELSE <<[content |-> [i \in 1..Len(output) |-> output[i].text],
                              docx |-> persist = "saved"]>>
          /\ output' = Append(output, [type |-> IF persist = "saved" THEN "done" ELSE "error"])
    /\ pc' = "wf_closed"
    /\ UNCHANGED <<workflow_id, environ, inputs, locals, calls, raised,
                   gapVars, pillarVars, discVars, trafVars, profVars, leaderVars,
                   metroVars, normVars, adapterVars, formatVars, adVars, srvVars>>

NextWorkflow ==
    \/ StartWorkflow
    \/ KgResolveCompetitors
    \/ KgComputeGap
    \/ PaGatherMarket
    \/ PaProfileMarket
    \/ StreamReport
    \/ StreamError
    \/ CloseStream
SpecWorkflow == InitWorkflow /\ [][NextWorkflow]_vars

(***************************************************************************)
(* Claims about the workflows                                              *)
(***************************************************************************)
CallsNamed(name) == SelectSeq(calls, LAMBDA c : c.call = name)
FailedCall(name) == \E i \in 1..Len(calls) : calls[i].call = name /\ ~calls[i].ok
Bound(name) == name \in DOMAIN locals
ReportStreamed == \E i \in 1..Len(output) : output[i] = Token("report")
DomainGiven == Lower(Strip(inputs.domain)) # <<>>
GeneratorEnded == pc \in {"wf_generated", "wf_closed"} /\ raised = "none"

\* C6: whatever data-source calls fail, no exception of such a call leaves the
\* generator; the local a failed call was to fill holds the empty or default value;
\* and a generator that made data-source calls ends only after streaming the report.
C6_NoDataSourceExceptionEscapes ==
    /\ raised # "data_source"
    /\ (Bound("client_keywords") /\ FailedCall("client_keywords"))
           => locals.client_keywords = <<>>
    /\ (Bound("competitor_domains") /\ FailedCall("local_pack") /\ FailedCall("organic_serp"))
           => locals.competitor_domains = <<>>
    /\ Bound("gap_keywords") =>
           /\ \A i \in 1..Len(locals.competitor_keyword_sets) :
                 ~CallsNamed("competitor_keywords")[i].ok
                     => locals.competitor_keyword_sets[i][2] = <<>>
           /\ FailedCall("seed_volumes") => locals.seed_volumes = <<>>
           /\ FailedCall("gap_volumes") => locals.gap_volumes = <<>>
    /\ Bound("domain_city_map") =>
           /\ FailedCall("keyword_volumes") => locals.keyword_volumes = <<>>
           /\ (FailedCall("local_pack") /\ FailedCall("organic_serp"))
                 => locals.domain_city_map = <<>>
    /\ Bound("competitor_profiles") =>
           /\ FailedCall("rank_overview") =>
                 \A i \in 1..Len(locals.competitor_profiles) :
                     /\ locals.competitor_profiles[i].keywords = 0
                     /\ locals.competitor_profiles[i].traffic = 0
                     /\ locals.competitor_profiles[i].etv_cost = 0
           /\ (FailedCall("ranked_keywords") /\ FailedCall("sa_fallback")) =>
                 \A i \in 1..Len(locals.competitor_profiles) :
                     locals.competitor_profiles[i].top_kws = <<>>
           /\ FailedCall("prospect_rank") =>
                 locals.prospect_rank = [keywords |-> 0, etv |-> 0, etv_cost |-> 0]
           /\ FailedCall("keyword_difficulty") => locals.keyword_difficulty = <<>>
           /\ FailedCall("water_treatment") => locals.wt_profiles = <<>>
    /\ (GeneratorEnded /\ calls # <<>>) => ReportStreamed

\* C6 witness: with every credential set, the prospect audit found competitors, every
\* other data-source call failed, and the stream still ended with the report and done.
C6_Witness ==
    /\ pc = "wf_closed"
    /\ workflow_id = "prospect-audit"
    /\ environ = EnvNames
    /\ Bound("competitor_profiles")
    /\ locals.competitor_profiles # <<>>
    /\ \A i \in 1..Len(calls) :
          calls[i].call \notin {"local_pack", "organic_serp"} => ~calls[i].ok
    /\ FailedCall("rank_overview") /\ FailedCall("ranked_keywords") /\ FailedCall("sa_fallback")
    /\ FailedCall("keyword_volumes") /\ FailedCall("prospect_rank")
    /\ ReportStreamed
    /\ output[Len(output)].type = "done"

METRO_LOOKUP ==
  <<
    <<<<"p","h","o","e","n","i","x">>, <<"a","z">>,
      <<<<"P","h","o","e","n","i","x">>,
        <<"S","c","o","t","t","s","d","a","l","e">>,
        <<"T","e","m","p","e">>,
        <<"M","e","s","a">>,
        <<"C","h","a","n","d","l","e","r">>,
        <<"G","l","e","n","d","a","l","e">>>> >>,
    <<<<"s","c","o","t","t","s","d","a","l","e">>, <<"a","z">>,
      <<<<"S","c","o","t","t","s","d","a","l","e">>,
        <<"P","h","o","e","n","i","x">>,
        <<"T","e","m","p","e">>,
        <<"M","e","s","a">>,
        <<"P","a","r","a","d","i","s","e"," ","V","a","l","l","e","y">>,
        <<"F","o","u","n","t","a","i","n"," ","H","i","l","l","s">>>> >>,
    <<<<"c","h","a","n","d","l","e","r">>, <<"a","z">>,
      <<<<"C","h","a","n","d","l","e","r">>,
        <<"M","e","s","a">>,
        <<"T","e","m","p","e">>,
        <<"G","i","l","b","e","r","t">>,
        <<"S","c","o","t","t","s","d","a","l","e">>,
        <<"P","h","o","e","n","i","x">>>> >>,
    <<<<"m","e","s","a">>, <<"a","z">>,
      <<<<"M","e","s","a">>,
        <<"C","h","a","n","d","l","e","r">>,
        <<"T","e","m","p","e">>,
        <<"G","i","l","b","e","r","t">>,
        <<"S","c","o","t","t","s","d","a","l","e">>,
        <<"P","h","o","e","n","i","x">>>> >>,
    <<<<"t","e","m","p","e">>, <<"a","z">>,
      <<<<"T","e","m","p","e">>,
        <<"M","e","s","a">>,
        <<"C","h","a","n","d","l","e","r">>,
        <<"P","h","o","e","n","i","x">>,
        <<"S","c","o","t","t","s","d","a","l","e">>,
        <<"G","i","l","b","e","r","t">>>> >>,
    <<<<"g","i","l","b","e","r","t">>, <<"a","z">>,
      <<<<"G","i","l","b","e","r","t">>,
        <<"C","h","a","n","d","l","e","r">>,
        <<"M","e","s","a">>,
        <<"T","e","m","p","e">>,
        <<"Q","u","e","e","n"," ","C","r","e","e","k">>,
        <<"S","a","n"," ","T","a","n"," ","V","a","l","l","e","y">>,
        <<"S","c","o","t","t","s","d","a","l","e">>>> >>,
    <<<<"g","l","e","n","d","a","l","e">>, <<"a","z">>,
      <<<<"G","l","e","n","d","a","l","e">>,
        <<"P","h","o","e","n","i","x">>,
        <<"P","e","o","r","i","a">>,
        <<"S","u","r","p","r","i","s","e">>,
        <<"A","v","o","n","d","a","l","e">>,
        <<"G","o","o","d","y","e","a","r">>>> >>,
    <<<<"p","e","o","r","i","a">>, <<"a","z">>,
      <<<<"P","e","o","r","i","a">>,
        <<"G","l","e","n","d","a","l","e">>,
        <<"P","h","o","e","n","i","x">>,
        <<"S","u","r","p","r","i","s","e">>,
        <<"G","o","o","d","y","e","a","r">>,
        <<"A","v","o","n","d","a","l","e">>>> >>,
    <<<<"l","o","s"," ","a","n","g","e","l","e","s">>, <<"c","a">>,
      <<<<"L","o","s"," ","A","n","g","e","l","e","s">>,
        <<"G","l","e","n","d","a","l","e">>,
        <<"B","u","r","b","a","n","k">>,
        <<"P","a","s","a","d","e","n","a">>,
        <<"L","o","n","g"," ","B","e","a","c","h">>,
        <<"T","o","r","r","a","n","c","e">>>> >>,
    <<<<"g","l","e","n","d","a","l","e">>, <<"c","a">>,
      <<<<"G","l","e","n","d","a","l","e">>,
        <<"B","u","r","b","a","n","k">>,
        <<"P","a","s","a","d","e","n","a">>,
        <<"L","o","s"," ","A","n","g","e","l","e","s">>,
        <<"N","o","r","t","h"," ","H","o","l","l","y","w","o","o","d">>>> >>,
    <<<<"a","n","a","h","e","i","m">>, <<"c","a">>,
      <<<<"A","n","a","h","e","i","m">>,
        <<"O","r","a","n","g","e">>,
        <<"S","a","n","t","a"," ","A","n","a">>,
        <<"F","u","l","l","e","r","t","o","n">>,
        <<"G","a","r","d","e","n"," ","G","r","o","v","e">>,
        <<"I","r","v","i","n","e">>>> >>,
    <<<<"i","r","v","i","n","e">>, <<"c","a">>,
      <<<<"I","r","v","i","n","e">>,
        <<"A","n","a","h","e","i","m">>,
        <<"O","r","a","n","g","e">>,
        <<"S","a","n","t","a"," ","A","n","a">>,
        <<"C","o","s","t","a"," ","M","e","s","a">>,
        <<"N","e","w","p","o","r","t"," ","B","e","a","c","h">>>> >>,
    <<<<"s","a","n"," ","d","i","e","g","o">>, <<"c","a">>,
      <<<<"S","a","n"," ","D","i","e","g","o">>,
        <<"C","h","u","l","a"," ","V","i","s","t","a">>,
        <<"E","l"," ","C","a","j","o","n">>,
        <<"E","s","c","o","n","d","i","d","o">>,
        <<"S","a","n","t","e","e">>,
        <<"L","a"," ","M","e","s","a">>>> >>,
    <<<<"s","a","n"," ","j","o","s","e">>, <<"c","a">>,
      <<<<"S","a","n"," ","J","o","s","e">>,
        <<"S","a","n","t","a"," ","C","l","a","r","a">>,
        <<"S","u","n","n","y","v","a","l","e">>,
        <<"F","r","e","m","o","n","t">>,
        <<"M","i","l","p","i","t","a","s">>,
        <<"C","a","m","p","b","e","l","l">>>> >>,
    <<<<"f","r","e","m","o","n","t">>, <<"c","a">>,
      <<<<"F","r","e","m","o","n","t">>,
        <<"N","e","w","a","r","k">>,
        <<"U","n","i","o","n"," ","C","i","t","y">>,
        <<"H","a","y","w","a","r","d">>,
        <<"S","a","n"," ","J","o","s","e">>,
        <<"M","i","l","p","i","t","a","s">>>> >>,
    <<<<"s","a","c","r","a","m","e","n","t","o">>, <<"c","a">>,
      <<<<"S","a","c","r","a","m","e","n","t","o">>,
        <<"E","l","k"," ","G","r","o","v","e">>,
        <<"R","o","s","e","v","i","l","l","e">>,
        <<"F","o","l","s","o","m">>,
        <<"R","a","n","c","h","o"," ","C","o","r","d","o","v","a">>,
        <<"C","i","t","r","u","s"," ","H","e","i","g","h","t","s">>>> >>,
    <<<<"f","r","e","s","n","o">>, <<"c","a">>,
      <<<<"F","r","e","s","n","o">>,
        <<"C","l","o","v","i","s">>,
        <<"M","a","d","e","r","a">>,
        <<"T","u","l","a","r","e">>,
        <<"V","i","s","a","l","i","a">>>> >>,
    <<<<"d","a","l","l","a","s">>, <<"t","x">>,
      <<<<"D","a","l","l","a","s">>,
        <<"P","l","a","n","o">>,
        <<"F","r","i","s","c","o">>,
        <<"M","c","K","i","n","n","e","y">>,
        <<"A","r","l","i","n","g","t","o","n">>,
        <<"I","r","v","i","n","g">>>> >>,
    <<<<"p","l","a","n","o">>, <<"t","x">>,
      <<<<"P","l","a","n","o">>,
        <<"D","a","l","l","a","s">>,
        <<"F","r","i","s","c","o">>,
        <<"M","c","K","i","n","n","e","y">>,
        <<"A","l","l","e","n">>,
        <<"R","i","c","h","a","r","d","s","o","n">>>> >>,
    <<<<"f","r","i","s","c","o">>, <<"t","x">>,
      <<<<"F","r","i","s","c","o">>,
        <<"P","l","a","n","o">>,
        <<"M","c","K","i","n","n","e","y">>,
        <<"A","l","l","e","n">>,
        <<"L","i","t","t","l","e"," ","E","l","m">>,
        <<"D","a","l","l","a","s">>>> >>,
    <<<<"f","o","r","t"," ","w","o","r","t","h">>, <<"t","x">>,
      <<<<"F","o","r","t"," ","W","o","r","t","h">>,
        <<"A","r","l","i","n","g","t","o","n">>,
        <<"M","a","n","s","f","i","e","l","d">>,
        <<"B","u","r","l","e","s","o","n">>,
        <<"K","e","l","l","e","r">>,
        <<"S","o","u","t","h","l","a","k","e">>>> >>,
    <<<<"a","r","l","i","n","g","t","o","n">>, <<"t","x">>,
      <<<<"A","r","l","i","n","g","t","o","n">>,
        <<"F","o","r","t"," ","W","o","r","t","h">>,
        <<"G","r","a","n","d"," ","P","r","a","i","r","i","e">>,
        <<"M","a","n","s","f","i","e","l","d">>,
        <<"I","r","v","i","n","g">>,
        <<"D","a","l","l","a","s">>>> >>,
    <<<<"h","o","u","s","t","o","n">>, <<"t","x">>,
      <<<<"H","o","u","s","t","o","n">>,
        <<"S","u","g","a","r"," ","L","a","n","d">>,
        <<"K","a","t","y">>,
        <<"P","e","a","r","l","a","n","d">>,
        <<"L","e","a","g","u","e"," ","C","i","t","y">>,
        <<"P","a","s","a","d","e","n","a">>>> >>,
    <<<<"s","u","g","a","r"," ","l","a","n","d">>, <<"t","x">>,
      <<<<"S","u","g","a","r"," ","L","a","n","d">>,
        <<"M","i","s","s","o","u","r","i"," ","C","i","t","y">>,
        <<"P","e","a","r","l","a","n","d">>,
        <<"S","t","a","f","f","o","r","d">>,
        <<"H","o","u","s","t","o","n">>>> >>,
    <<<<"a","u","s","t","i","n">>, <<"t","x">>,
      <<<<"A","u","s","t","i","n">>,
        <<"R","o","u","n","d"," ","R","o","c","k">>,
        <<"C","e","d","a","r"," ","P","a","r","k">>,
        <<"G","e","o","r","g","e","t","o","w","n">>,
        <<"P","f","l","u","g","e","r","v","i","l","l","e">>,
        <<"K","y","l","e">>>> >>,
    <<<<"r","o","u","n","d"," ","r","o","c","k">>, <<"t","x">>,
      <<<<"R","o","u","n","d"," ","R","o","c","k">>,
        <<"A","u","s","t","i","n">>,
        <<"C","e","d","a","r"," ","P","a","r","k">>,
        <<"G","e","o","r","g","e","t","o","w","n">>,
        <<"P","f","l","u","g","e","r","v","i","l","l","e">>>> >>,
    <<<<"s","a","n"," ","a","n","t","o","n","i","o">>, <<"t","x">>,
      <<<<"S","a","n"," ","A","n","t","o","n","i","o">>,
        <<"N","e","w"," ","B","r","a","u","n","f","e","l","s">>,
        <<"S","c","h","e","r","t","z">>,
        <<"B","o","e","r","n","e">>,
        <<"C","o","n","v","e","r","s","e">>,
        <<"S","e","g","u","i","n">>>> >>,
    <<<<"m","i","a","m","i">>, <<"f","l">>,
      <<<<"M","i","a","m","i">>,
        <<"C","o","r","a","l"," ","G","a","b","l","e","s">>,
        <<"H","i","a","l","e","a","h">>,
        <<"D","o","r","a","l">>,
        <<"K","e","n","d","a","l","l">>,
        <<"M","i","r","a","m","a","r">>>> >>,
    <<<<"o","r","l","a","n","d","o">>, <<"f","l">>,
      <<<<"O","r","l","a","n","d","o">>,
        <<"K","i","s","s","i","m","m","e","e">>,
        <<"S","a","n","f","o","r","d">>,
        <<"O","v","i","e","d","o">>,
        <<"W","i","n","t","e","r"," ","G","a","r","d","e","n">>,
        <<"C","l","e","r","m","o","n","t">>>> >>,
    <<<<"k","i","s","s","i","m","m","e","e">>, <<"f","l">>,
      <<<<"K","i","s","s","i","m","m","e","e">>,
        <<"O","r","l","a","n","d","o">>,
        <<"C","e","l","e","b","r","a","t","i","o","n">>,
        <<"P","o","i","n","c","i","a","n","a">>,
        <<"S","a","i","n","t"," ","C","l","o","u","d">>>> >>,
    <<<<"t","a","m","p","a">>, <<"f","l">>,
      <<<<"T","a","m","p","a">>,
        <<"S","t","."," ","P","e","t","e","r","s","b","u","r","g">>,
        <<"C","l","e","a","r","w","a","t","e","r">>,
        <<"B","r","a","n","d","o","n">>,
        <<"L","a","k","e","l","a","n","d">>,
        <<"W","e","s","l","e","y"," ","C","h","a","p","e","l">>>> >>,
    <<<<"j","a","c","k","s","o","n","v","i","l","l","e">>, <<"f","l">>,
      <<<<"J","a","c","k","s","o","n","v","i","l","l","e">>,
        <<"O","r","a","n","g","e"," ","P","a","r","k">>,
        <<"S","t","."," ","A","u","g","u","s","t","i","n","e">>,
        <<"F","l","e","m","i","n","g"," ","I","s","l","a","n","d">>,
        <<"P","o","n","t","e"," ","V","e","d","r","a">>>> >>,
    <<<<"f","o","r","t"," ","l","a","u","d","e","r","d","a","l","e">>, <<"f","l">>,
      <<<<"F","o","r","t"," ","L","a","u","d","e","r","d","a","l","e">>,
        <<"H","o","l","l","y","w","o","o","d">>,
        <<"P","o","m","p","a","n","o"," ","B","e","a","c","h">>,
        <<"C","o","r","a","l"," ","S","p","r","i","n","g","s">>,
        <<"M","i","r","a","m","a","r">>>> >>,
    <<<<"s","t","."," ","p","e","t","e","r","s","b","u","r","g">>, <<"f","l">>,
      <<<<"S","t","."," ","P","e","t","e","r","s","b","u","r","g">>,
        <<"T","a","m","p","a">>,
        <<"C","l","e","a","r","w","a","t","e","r">>,
        <<"P","i","n","e","l","l","a","s"," ","P","a","r","k">>,
        <<"L","a","r","g","o">>>> >>,
    <<<<"a","t","l","a","n","t","a">>, <<"g","a">>,
      <<<<"A","t","l","a","n","t","a">>,
        <<"M","a","r","i","e","t","t","a">>,
        <<"A","l","p","h","a","r","e","t","t","a">>,
        <<"R","o","s","w","e","l","l">>,
        <<"D","e","c","a","t","u","r">>,
        <<"S","a","n","d","y"," ","S","p","r","i","n","g","s">>>> >>,
    <<<<"m","a","r","i","e","t","t","a">>, <<"g","a">>,
      <<<<"M","a","r","i","e","t","t","a">>,
        <<"K","e","n","n","e","s","a","w">>,
        <<"S","m","y","r","n","a">>,
        <<"A","t","l","a","n","t","a">>,
        <<"R","o","s","w","e","l","l">>,
        <<"A","c","w","o","r","t","h">>>> >>,
    <<<<"c","h","a","r","l","o","t","t","e">>, <<"n","c">>,
      <<<<"C","h","a","r","l","o","t","t","e">>,
        <<"C","o","n","c","o","r","d">>,
        <<"G","a","s","t","o","n","i","a">>,
        <<"M","a","t","t","h","e","w","s">>,
        <<"H","u","n","t","e","r","s","v","i","l","l","e">>,
        <<"M","o","o","r","e","s","v","i","l","l","e">>>> >>,
    <<<<"r","a","l","e","i","g","h">>, <<"n","c">>,
      <<<<"R","a","l","e","i","g","h">>,
        <<"D","u","r","h","a","m">>,
        <<"C","a","r","y">>,
        <<"C","h","a","p","e","l"," ","H","i","l","l">>,
        <<"M","o","r","r","i","s","v","i","l","l","e">>,
        <<"A","p","e","x">>>> >>,
    <<<<"d","e","n","v","e","r">>, <<"c","o">>,
      <<<<"D","e","n","v","e","r">>,
        <<"A","u","r","o","r","a">>,
        <<"L","a","k","e","w","o","o","d">>,
        <<"E","n","g","l","e","w","o","o","d">>,
        <<"W","e","s","t","m","i","n","s","t","e","r">>,
        <<"A","r","v","a","d","a">>>> >>,
    <<<<"a","u","r","o","r","a">>, <<"c","o">>,
      <<<<"A","u","r","o","r","a">>,
        <<"D","e","n","v","e","r">>,
        <<"P","a","r","k","e","r">>,
        <<"C","e","n","t","e","n","n","i","a","l">>,
        <<"C","o","m","m","e","r","c","e"," ","C","i","t","y">>,
        <<"T","h","o","r","n","t","o","n">>>> >>,
    <<<<"l","a","s"," ","v","e","g","a","s">>, <<"n","v">>,
      <<<<"L","a","s"," ","V","e","g","a","s">>,
        <<"H","e","n","d","e","r","s","o","n">>,
        <<"N","o","r","t","h"," ","L","a","s"," ","V","e","g","a","s">>,
        <<"S","u","m","m","e","r","l","i","n">>,
        <<"B","o","u","l","d","e","r"," ","C","i","t","y">>>> >>,
    <<<<"h","e","n","d","e","r","s","o","n">>, <<"n","v">>,
      <<<<"H","e","n","d","e","r","s","o","n">>,
        <<"L","a","s"," ","V","e","g","a","s">>,
        <<"B","o","u","l","d","e","r"," ","C","i","t","y">>,
        <<"N","o","r","t","h"," ","L","a","s"," ","V","e","g","a","s">>>> >>,
    <<<<"s","e","a","t","t","l","e">>, <<"w","a">>,
      <<<<"S","e","a","t","t","l","e">>,
        <<"B","e","l","l","e","v","u","e">>,
        <<"R","e","d","m","o","n","d">>,
        <<"K","i","r","k","l","a","n","d">>,
        <<"R","e","n","t","o","n">>,
        <<"T","a","c","o","m","a">>>> >>,
    <<<<"b","e","l","l","e","v","u","e">>, <<"w","a">>,
      <<<<"B","e","l","l","e","v","u","e">>,
        <<"R","e","d","m","o","n","d">>,
        <<"K","i","r","k","l","a","n","d">>,
        <<"S","e","a","t","t","l","e">>,
        <<"M","e","r","c","e","r"," ","I","s","l","a","n","d">>,
        <<"I","s","s","a","q","u","a","h">>>> >>,
    <<<<"p","o","r","t","l","a","n","d">>, <<"o","r">>,
      <<<<"P","o","r","t","l","a","n","d">>,
        <<"B","e","a","v","e","r","t","o","n">>,
        <<"H","i","l","l","s","b","o","r","o">>,
        <<"L","a","k","e"," ","O","s","w","e","g","o">>,
        <<"G","r","e","s","h","a","m">>,
        <<"T","u","a","l","a","t","i","n">>>> >>,
    <<<<"c","h","i","c","a","g","o">>, <<"i","l">>,
      <<<<"C","h","i","c","a","g","o">>,
        <<"N","a","p","e","r","v","i","l","l","e">>,
        <<"A","u","r","o","r","a">>,
        <<"J","o","l","i","e","t">>,
        <<"E","l","g","i","n">>,
        <<"S","c","h","a","u","m","b","u","r","g">>>> >>,
    <<<<"n","a","p","e","r","v","i","l","l","e">>, <<"i","l">>,
      <<<<"N","a","p","e","r","v","i","l","l","e">>,
        <<"A","u","r","o","r","a">>,
        <<"B","o","l","i","n","g","b","r","o","o","k">>,
        <<"P","l","a","i","n","f","i","e","l","d">>,
        <<"D","o","w","n","e","r","s"," ","G","r","o","v","e">>,
        <<"W","h","e","a","t","o","n">>>> >>,
    <<<<"c","o","l","u","m","b","u","s">>, <<"o","h">>,
      <<<<"C","o","l","u","m","b","u","s">>,
        <<"D","u","b","l","i","n">>,
        <<"W","e","s","t","e","r","v","i","l","l","e">>,
        <<"G","r","o","v","e"," ","C","i","t","y">>,
        <<"H","i","l","l","i","a","r","d">>,
        <<"G","a","h","a","n","n","a">>>> >>,
    <<<<"c","l","e","v","e","l","a","n","d">>, <<"o","h">>,
      <<<<"C","l","e","v","e","l","a","n","d">>,
        <<"A","k","r","o","n">>,
        <<"L","a","k","e","w","o","o","d">>,
        <<"P","a","r","m","a">>,
        <<"E","u","c","l","i","d">>,
        <<"S","t","r","o","n","g","s","v","i","l","l","e">>>> >>,
    <<<<"d","e","t","r","o","i","t">>, <<"m","i">>,
      <<<<"D","e","t","r","o","i","t">>,
        <<"D","e","a","r","b","o","r","n">>,
        <<"S","t","e","r","l","i","n","g"," ","H","e","i","g","h","t","s">>,
        <<"W","a","r","r","e","n">>,
        <<"T","r","o","y">>,
        <<"L","i","v","o","n","i","a">>>> >>,
    <<<<"g","r","a","n","d"," ","r","a","p","i","d","s">>, <<"m","i">>,
      <<<<"G","r","a","n","d"," ","R","a","p","i","d","s">>,
        <<"W","y","o","m","i","n","g">>,
        <<"K","e","n","t","w","o","o","d">>,
        <<"H","o","l","l","a","n","d">>,
        <<"N","o","r","t","o","n"," ","S","h","o","r","e","s">>,
        <<"M","u","s","k","e","g","o","n">>>> >>,
    <<<<"p","h","i","l","a","d","e","l","p","h","i","a">>, <<"p","a">>,
      <<<<"P","h","i","l","a","d","e","l","p","h","i","a">>,
        <<"C","a","m","d","e","n">>,
        <<"C","h","e","r","r","y"," ","H","i","l","l">>,
        <<"W","i","l","m","i","n","g","t","o","n">>,
        <<"C","o","n","s","h","o","h","o","c","k","e","n">>>> >>,
    <<<<"n","e","w"," ","y","o","r","k">>, <<"n","y">>,
      <<<<"N","e","w"," ","Y","o","r","k">>,
        <<"B","r","o","o","k","l","y","n">>,
        <<"Q","u","e","e","n","s">>,
        <<"B","r","o","n","x">>,
        <<"S","t","a","t","e","n"," ","I","s","l","a","n","d">>,
        <<"N","e","w","a","r","k">>>> >>,
    <<<<"n","e","w","a","r","k">>, <<"n","j">>,
      <<<<"N","e","w","a","r","k">>,
        <<"J","e","r","s","e","y"," ","C","i","t","y">>,
        <<"E","l","i","z","a","b","e","t","h">>,
        <<"P","a","t","e","r","s","o","n">>,
        <<"E","d","i","s","o","n">>,
        <<"W","o","o","d","b","r","i","d","g","e">>>> >>,
    <<<<"n","a","s","h","v","i","l","l","e">>, <<"t","n">>,
      <<<<"N","a","s","h","v","i","l","l","e">>,
        <<"M","u","r","f","r","e","e","s","b","o","r","o">>,
        <<"F","r","a","n","k","l","i","n">>,
        <<"B","r","e","n","t","w","o","o","d">>,
        <<"H","e","n","d","e","r","s","o","n","v","i","l","l","e">>>> >>,
    <<<<"m","e","m","p","h","i","s">>, <<"t","n">>,
      <<<<"M","e","m","p","h","i","s">>,
        <<"G","e","r","m","a","n","t","o","w","n">>,
        <<"C","o","l","l","i","e","r","v","i","l","l","e">>,
        <<"B","a","r","t","l","e","t","t">>,
        <<"C","o","r","d","o","v","a">>>> >>,
    <<<<"k","n","o","x","v","i","l","l","e">>, <<"t","n">>,
      <<<<"K","n","o","x","v","i","l","l","e">>,
        <<"M","a","r","y","v","i","l","l","e">>,
        <<"O","a","k"," ","R","i","d","g","e">>,
        <<"S","e","v","i","e","r","v","i","l","l","e">>,
        <<"A","l","c","o","a">>>> >>,
    <<<<"m","i","n","n","e","a","p","o","l","i","s">>, <<"m","n">>,
      <<<<"M","i","n","n","e","a","p","o","l","i","s">>,
        <<"S","t","."," ","P","a","u","l">>,
        <<"B","l","o","o","m","i","n","g","t","o","n">>,
        <<"P","l","y","m","o","u","t","h">>,
        <<"E","a","g","a","n">>,
        <<"M","a","p","l","e"," ","G","r","o","v","e">>>> >>,
    <<<<"s","t","."," ","l","o","u","i","s">>, <<"m","o">>,
      <<<<"S","t","."," ","L","o","u","i","s">>,
        <<"C","h","e","s","t","e","r","f","i","e","l","d">>,
        <<"B","a","l","l","w","i","n">>,
        <<"K","i","r","k","w","o","o","d">>,
        <<"C","l","a","y","t","o","n">>,
        <<"F","l","o","r","i","s","s","a","n","t">>>> >>,
    <<<<"m","i","l","w","a","u","k","e","e">>, <<"w","i">>,
      <<<<"M","i","l","w","a","u","k","e","e">>,
        <<"W","a","u","w","a","t","o","s","a">>,
        <<"W","e","s","t"," ","A","l","l","i","s">>,
        <<"B","r","o","o","k","f","i","e","l","d">>,
        <<"G","r","e","e","n","f","i","e","l","d">>,
        <<"O","a","k"," ","C","r","e","e","k">>>> >>,
    <<<<"b","a","l","t","i","m","o","r","e">>, <<"m","d">>,
      <<<<"B","a","l","t","i","m","o","r","e">>,
        <<"T","o","w","s","o","n">>,
        <<"C","o","l","u","m","b","i","a">>,
        <<"C","a","t","o","n","s","v","i","l","l","e">>,
        <<"B","o","w","i","e">>,
        <<"G","a","i","t","h","e","r","s","b","u","r","g">>>> >>,
    <<<<"v","i","r","g","i","n","i","a"," ","b","e","a","c","h">>, <<"v","a">>,
      <<<<"V","i","r","g","i","n","i","a"," ","B","e","a","c","h">>,
        <<"N","o","r","f","o","l","k">>,
        <<"C","h","e","s","a","p","e","a","k","e">>,
        <<"H","a","m","p","t","o","n">>,
        <<"N","e","w","p","o","r","t"," ","N","e","w","s">>>> >>,
    <<<<"b","o","s","t","o","n">>, <<"m","a">>,
      <<<<"B","o","s","t","o","n">>,
        <<"C","a","m","b","r","i","d","g","e">>,
        <<"Q","u","i","n","c","y">>,
        <<"N","e","w","t","o","n">>,
        <<"S","o","m","e","r","v","i","l","l","e">>,
        <<"B","r","o","o","k","l","i","n","e">>>> >>,
    <<<<"h","a","r","t","f","o","r","d">>, <<"c","t">>,
      <<<<"H","a","r","t","f","o","r","d">>,
        <<"W","e","s","t"," ","H","a","r","t","f","o","r","d">>,
        <<"M","a","n","c","h","e","s","t","e","r">>,
        <<"N","e","w"," ","B","r","i","t","a","i","n">>,
        <<"B","r","i","s","t","o","l">>>> >>,
    <<<<"c","h","a","r","l","e","s","t","o","n">>, <<"s","c">>,
      <<<<"C","h","a","r","l","e","s","t","o","n">>,
        <<"N","o","r","t","h"," ","C","h","a","r","l","e","s","t","o","n">>,
        <<"M","o","u","n","t"," ","P","l","e","a","s","a","n","t">>,
        <<"S","u","m","m","e","r","v","i","l","l","e">>,
        <<"G","o","o","s","e"," ","C","r","e","e","k">>>> >>,
    <<<<"b","i","r","m","i","n","g","h","a","m">>, <<"a","l">>,
      <<<<"B","i","r","m","i","n","g","h","a","m">>,
        <<"H","o","o","v","e","r">>,
        <<"V","e","s","t","a","v","i","a"," ","H","i","l","l","s">>,
        <<"T","u","s","c","a","l","o","o","s","a">>,
        <<"H","o","m","e","w","o","o","d">>>> >>,
    <<<<"n","e","w"," ","o","r","l","e","a","n","s">>, <<"l","a">>,
      <<<<"N","e","w"," ","O","r","l","e","a","n","s">>,
        <<"M","e","t","a","i","r","i","e">>,
        <<"K","e","n","n","e","r">>,
        <<"G","r","e","t","n","a">>,
        <<"H","a","r","v","e","y">>,
        <<"B","a","t","o","n"," ","R","o","u","g","e">>>> >>,
    <<<<"o","k","l","a","h","o","m","a"," ","c","i","t","y">>, <<"o","k">>,
      <<<<"O","k","l","a","h","o","m","a"," ","C","i","t","y">>,
        <<"E","d","m","o","n","d">>,
        <<"N","o","r","m","a","n">>,
        <<"M","o","o","r","e">>,
        <<"M","i","d","w","e","s","t"," ","C","i","t","y">>,
        <<"Y","u","k","o","n">>>> >>,
    <<<<"w","i","c","h","i","t","a">>, <<"k","s">>,
      <<<<"W","i","c","h","i","t","a">>,
        <<"D","e","r","b","y">>,
        <<"A","n","d","o","v","e","r">>,
        <<"H","a","y","s","v","i","l","l","e">>,
        <<"M","a","i","z","e">>,
        <<"N","e","w","t","o","n">>>> >>,
    <<<<"s","a","l","t"," ","l","a","k","e"," ","c","i","t","y">>, <<"u","t">>,
      <<<<"S","a","l","t"," ","L","a","k","e"," ","C","i","t","y">>,
        <<"S","a","n","d","y">>,
        <<"W","e","s","t"," ","J","o","r","d","a","n">>,
        <<"O","r","e","m">>,
        <<"P","r","o","v","o">>,
        <<"O","g","d","e","n">>>> >>,
    <<<<"a","l","b","u","q","u","e","r","q","u","e">>, <<"n","m">>,
      <<<<"A","l","b","u","q","u","e","r","q","u","e">>,
        <<"R","i","o"," ","R","a","n","c","h","o">>,
        <<"S","a","n","t","a"," ","F","e">>,
        <<"R","o","s","w","e","l","l">>,
        <<"F","a","r","m","i","n","g","t","o","n">>>> >>,
    <<<<"b","o","i","s","e">>, <<"i","d">>,
      <<<<"B","o","i","s","e">>,
        <<"N","a","m","p","a">>,
        <<"M","e","r","i","d","i","a","n">>,
        <<"C","a","l","d","w","e","l","l">>,
        <<"G","a","r","d","e","n"," ","C","i","t","y">>,
        <<"E","a","g","l","e">>>> >>
  >>

\* a plausible slip: the fallback returns the city as it was typed
GetMetroCitiesRaw(city_in, state_in, n) ==
    IF \E i \in 1..Len(METRO_LOOKUP) :
          METRO_LOOKUP[i][1] = Strip(Lower(city_in)) /\ METRO_LOOKUP[i][2] = Strip(Lower(state_in))
    THEN <<>>
    ELSE <<city_in>>

\* _get_metro_cities(city, state_abbr, n)
GetMetroCities(city_in, state_in, n) ==
    LET hit == {i \in 1..Len(METRO_LOOKUP) :
                   /\ METRO_LOOKUP[i][1] = Strip(Lower(city_in))
                   /\ METRO_LOOKUP[i][2] = Strip(Lower(state_in))}
    IN  IF hit # {}
        THEN LET found == METRO_LOOKUP[CHOOSE i \in hit : TRUE][3]
                 led == IF Lower(found[1]) # Lower(city_in)
                        THEN <<Title(city_in)>>
                             \o SelectSeq(found, LAMBDA c : Lower(c) # Lower(city_in))
                        ELSE found
             IN  Take(led, n)
        ELSE <<Title(city_in)>>

\* the city and state parts of the locations the audit is run for
\* the largest n asked for (the default is 5; the longest list of the table has 7)
MaxMetroN == 7

MetroCityInputs ==
    { <<"S","m","a","l","l","t","o","w","n">>,
      <<"s","m","a","l","l","t","o","w","n">>,
      <<"S","M","A","L","L","T","O","W","N">>,
      <<"s","t","."," ","c","l","o","u","d">>,
      <<"o","'","f","a","l","l","o","n">>,
      <<"M","c","K","i","n","n","e","y">>,
      <<"P","H","O","E","N","I","X">>,
      <<" ","P","h","o","e","n","i","x">>,
      <<"C","h","a","n","d","l","e","r">>,
      <<"g","i","l","b","e","r","t">>,
      <<"g","l","e","n","d","a","l","e">>,
      <<"L","a","s"," ","V","e","g","a","s">>,
      <<>> }

MetroStateInputs ==
    { <<"Z","Z">>, <<"z","z">>, <<"A","Z">>, <<"a","z">>, <<" ","A","z"," ">>, <<"T","X">>, <<"C","A">> }

InitMetro ==
    /\ pc = "metro_start"
    /\ metro_city \in MetroCityInputs
    /\ metro_state \in MetroStateInputs
    /\ metro_n \in 1..MaxMetroN
    /\ metro_result = <<>>
    /\ GapIdle /\ PillarIdle /\ DiscIdle /\ TrafficIdle /\ ProfileIdle /\ LeaderIdle /\ WorkflowIdle /\ NormIdle /\ AdapterIdle /\ FormatIdle /\ AdValueIdle /\ ServerIdle

\* _get_metro_cities(city, state_abbr, n); run_prospect_audit calls it with n=5
ResolveMetro ==
    /\ pc = "metro_start"
    /\ metro_result' = GetMetroCities(metro_city, metro_state, metro_n)
    /\ pc' = "metro_done"
    /\ UNCHANGED <<metro_city, metro_state, metro_n, gapVars, pillarVars, discVars, trafVars, profVars, leaderVars, flowVars, normVars, adapterVars, formatVars, adVars, srvVars>>

SpecMetro == InitMetro /\ [][ResolveMetro]_vars

(***************************************************************************)
(* Claims about _get_metro_cities                                          *)
(***************************************************************************)
\* the pair is a key of the static table, compared as the lookup compares it
IsMetroKey(city_in, state_in) ==
    \E i \in 1..Len(METRO_LOOKUP) :
        METRO_LOOKUP[i][1] = Strip(Lower(city_in)) /\ METRO_LOOKUP[i][2] = Strip(Lower(state_in))

\* t is s title-cased: the same text up to case, a letter in upper case exactly
\* when it starts a run of letters
TitleCased(t, s) ==
    /\ Len(t) = Len(s)
    /\ \A i \in 1..Len(s) :
          /\ LowerChar(t[i]) = LowerChar(s[i])
          /\ IsLetter(s[i]) =>
                (t[i] = UpperChar(s[i])) = (i = 1 \/ ~IsLetter(s[i - 1]))

\* C15: for a (city, state) pair that is not a key of the static metro table the
\* result is a list of exactly one element, the input city title-cased
\* ("Smalltown", "ZZ" gives ["Smalltown"]); the call returns, it raises nothing.
C15_UnknownCityFallsBack ==
    (pc = "metro_done" /\ ~IsMetroKey(metro_city, metro_state)) =>
        /\ Len(metro_result) = 1
        /\ TitleCased(metro_result[1], metro_city)
        /\ Lower(metro_city) = <<"s","m","a","l","l","t","o","w","n">> => metro_result = <<<<"S","m","a","l","l","t","o","w","n">>>>

\* C15 witness: "SMALLTOWN", "ZZ" was resolved to ["Smalltown"].
C15_Witness ==
    /\ pc = "metro_done"
    /\ metro_city = <<"S","M","A","L","L","T","O","W","N">>
    /\ metro_state = <<"Z","Z">>
    /\ metro_result = <<<<"S","m","a","l","l","t","o","w","n">>>>

SchemePunctuation == {"0", "1", "2", "3", "4", "5", "6", "7", "8", "9", "+", "-", "."}

\* urlparse(text).netloc: a scheme is what precedes the first ":" when that is a
\* letter followed by scheme characters; the netloc is what follows "//" up to
\* the first "/", "?" or "#", and is empty when the rest does not start with "//"
Netloc(text) ==
    LET colons == {i \in 1..Len(text) : text[i] = ":"}
        colon == IF colons = {} THEN 0 ELSE CHOOSE i \in colons : \A j \in colons : i <= j
        schemed == /\ colon > 1
                   /\ IsLetter(text[1])
                   /\ \A k \in 1..(colon - 1) : IsLetter(text[k]) \/ text[k] \in SchemePunctuation
        rest == IF schemed THEN SubSeq(text, colon + 1, Len(text)) ELSE text
        delims == {i \in 3..Len(rest) : rest[i] \in {"/", "?", "#"}}
        last == IF delims = {} THEN Len(rest)
                ELSE (CHOOSE i \in delims : \A j \in delims : i <= j) - 1
    IN  IF StartsWith(rest, <<"/", "/">>) THEN SubSeq(rest, 3, last) ELSE <<>>

\* _domain_from_url(url)
DomainFromUrl(text) ==
    IF text = <<>> THEN <<>>
    ELSE LET full == IF StartsWith(text, <<"h","t","t","p">>) THEN text
                     ELSE <<"h","t","t","p","s",":","/","/">> \o text
         IN  StripChars(RemoveAll(Netloc(full), <<"w","w","w",".">>), {"/"})

\* the domain of a result item as research_competitors lists it:
\* d = item.get("domain", "").strip().lower(), domain = _domain_from_url(url)
CompetitorDomain(text) == Lower(Strip(DomainFromUrl(text)))

\* urls and bare domains as search results carry them: a scheme or none, a
\* "www." prefix in either case or none, a host, and what follows the host
UrlInputs ==
    { scheme \o prefix \o host \o tail :
        scheme \in { <<>>, <<"h","t","t","p",":","/","/">>, <<"h","t","t","p","s",":","/","/">> },
        prefix \in { <<>>, <<"w","w","w",".">>, <<"W","W","W",".">> },
        host \in { <<"e","x","a","m","p","l","e",".","c","o","m">>,
                   <<"A","c","e","P","l","u","m","b","i","n","g",".","c","o","m">>,
                   <<"h","t","t","p","b","i","n",".","o","r","g">>,
                   <<"s","h","o","p",".","w","w","w",".","c","o">> },
        tail \in { <<>>, <<"/">>, <<"/","d","r","a","i","n","-","c","l","e","a","n","i","n","g","?","c","i","t","y","=","m","e","s","a">>, <<":","8","0","8","0","/">> } }

InitNormalize ==
    /\ pc = "norm_start"
    /\ raw_url \in UrlInputs
    /\ domain_once = <<>>
    /\ domain_twice = <<>>
    /\ GapIdle /\ PillarIdle /\ DiscIdle /\ TrafficIdle /\ ProfileIdle /\ LeaderIdle /\ WorkflowIdle /\ MetroIdle /\ AdapterIdle /\ FormatIdle /\ AdValueIdle /\ ServerIdle

\* the domain listed for a result item
NormalizeDomain ==
    /\ pc = "norm_start"
    /\ domain_once' = CompetitorDomain(raw_url)
    /\ pc' = "norm_once"
    /\ UNCHANGED <<raw_url, domain_twice, gapVars, pillarVars, discVars, trafVars, profVars, leaderVars, flowVars, metroVars, adapterVars, formatVars, adVars, srvVars>>

\* the same clean-up applied to a domain it produced
NormalizeAgain ==
    /\ pc = "norm_once"
    /\ domain_twice' = CompetitorDomain(domain_once)
    /\ pc' = "norm_twice"
    /\ UNCHANGED <<raw_url, domain_once, gapVars, pillarVars, discVars, trafVars, profVars, leaderVars, flowVars, metroVars, adapterVars, formatVars, adVars, srvVars>>

NextNormalize == NormalizeDomain \/ NormalizeAgain

SpecNormalize == InitNormalize /\ [][NextNormalize]_vars

(***************************************************************************)
(* Claims about domain normalisation                                       *)
(***************************************************************************)
\* C16: the normalisation is idempotent, applying it to its own output returns
\* that output unchanged, and the output never starts with "www.".
C16_NormalizationIdempotent ==
    pc = "norm_twice" =>
        /\ domain_twice = domain_once
        /\ ~StartsWith(domain_once, <<"w","w","w",".">>)

(***************************************************************************)
(* utils/dataforseo.py: _dfs_post and the adapter functions                *)
(*                                                                         *)
(* A JSON value of the response is held with its Python type: JNull is     *)
(* None, JList(s) a list, JDict(r) a dict.  The fields of a result item    *)
(* are held as before: a key that is absent or None is not in the record.  *)
(* etv is held in hundredths, the traffic_estimate made of it in tenths.   *)
(***************************************************************************)
JNull == [type |-> "null"]
JList(s) == [type |-> "list", items |-> s]
JDict(r) == [type |-> "dict", fields |-> r]

\* the truth value of a JSON value: None, [] and {} are false
Truthy(v) ==
    CASE v.type = "null" -> FALSE
      [] v.type = "list" -> v.items # <<>>
      [] v.type = "dict" -> DOMAIN v.fields # {}

\* an exception of the named class
Raises(exc) == [ok |-> FALSE, exc |-> exc]

\* v[k], k a key or "0" for the index 0
Subscript(v, k) ==
    IF v.type = "dict"
    THEN IF k \in DOMAIN v.fields THEN Returned(v.fields[k]) ELSE Raises("KeyError")
    ELSE IF v.type = "list" /\ k = "0"
    THEN IF v.items # <<>> THEN Returned(v.items[1]) ELSE Raises("IndexError")
    ELSE Raises("TypeError")

\* v[k1][k2]...: the first subscript that raises ends the evaluation
RECURSIVE Path(_, _)
Path(v, keys) ==
    IF keys = <<>> THEN Returned(v)
    ELSE LET o == Subscript(v, Head(keys))
         IN  IF o.ok THEN Path(o.val, Tail(keys)) ELSE o

\* d.get(k, default) on the fields of a dict
GetOr(d, k, default) == IF Has(d, k) THEN d[k] ELSE default

\* the record r with the keys that hold a value (None is an absent key)
WithGiven(r, d, keys) ==
    [k \in DOMAIN r \cup {k \in keys : Has(d, k)} |-> IF k \in DOMAIN r THEN r[k] ELSE d[k]]

\* _dfs_post, given what the HTTP call brought: Raised for missing credentials,
\* a transport error or an HTTP error status, Returned(data) for resp.json()
DfsPost(response) ==
    IF ~response.ok THEN Raises("HTTPError")
    ELSE LET data == response.val IN
         IF GetOr(data.fields, "status_code", 20000) # 20000 THEN Raises("ValueError")
         ELSE LET task == Path(data, <<"tasks", "0">>) IN
              IF ~task.ok
              THEN IF task.exc \in {"KeyError", "IndexError"} THEN Raises("ValueError") ELSE task
              ELSE IF task.val.type # "dict" THEN Raises("AttributeError")
              ELSE IF GetOr(task.val.fields, "status_code", 20000) # 20000 THEN Raises("ValueError")
              ELSE Returned(data)

\* a plausible slip: `except KeyError` only
OnlyKeyError == {"KeyError"}

\* `except (KeyError, IndexError, TypeError): return []`
ShapeErrors == {"KeyError", "IndexError", "TypeError"}

\* where an adapter looks for its items
ItemsPath(fn) ==
    IF fn = "get_keyword_search_volumes" THEN <<"tasks", "0", "result">>
    ELSE <<"tasks", "0", "result", "0", "items">>

\* the loop of get_local_pack
RECURSIVE LocalPackResults(_, _, _)
LocalPackResults(results, items, num_results) ==
    IF items = <<>> THEN Returned(results)
    ELSE LET item == Head(items) IN
         IF item.type # "dict" THEN Raises("AttributeError")
         ELSE IF GetOr(item.fields, "type", "") # "maps_element"
         THEN LocalPackResults(results, Tail(items), num_results)
         ELSE LET f == item.fields
                  url == IF OrEmpty(f, "url") # <<>> THEN f.url ELSE OrEmpty(f, "contact_url")
                  rating_obj == GetOr(f, "rating", <<>>)
                  rec == [rank |-> Len(results) + 1, name |-> GetOr(f, "title", ""),
                          website |-> url, domain |-> DomainFromUrl(url),
                          categories |-> GetOr(f, "category", ""),
                          address |-> GetOr(f, "address", ""), phone |-> GetOr(f, "phone", ""),
                          place_id |-> GetOr(f, "place_id", "")]
                         @@ (IF Has(rating_obj, "value") THEN [rating |-> rating_obj.value] ELSE <<>>)
                         @@ (IF Has(rating_obj, "votes_count") THEN [reviews |-> rating_obj.votes_count] ELSE <<>>)
                  more == Append(results, rec)
              IN  IF Len(more) >= num_results THEN Returned(more)
                  ELSE LocalPackResults(more, Tail(items), num_results)

\* the loop of get_organic_serp
RECURSIVE OrganicResults(_, _, _)
OrganicResults(results, items, num_results) ==
    IF items = <<>> THEN Returned(results)
    ELSE LET item == Head(items) IN
         IF item.type # "dict" THEN Raises("AttributeError")
         ELSE IF GetOr(item.fields, "type", "") # "organic"
         THEN OrganicResults(results, Tail(items), num_results)
         ELSE LET f == item.fields
                  url == GetOr(f, "url", <<>>)
                  rec == [rank |-> GetOr(f, "rank_group", Len(results) + 1),
                          title |-> GetOr(f, "title", ""), url |-> url,
                          domain |-> DomainFromUrl(url),
                          description |-> GetOr(f, "description", "")]
                  more == Append(results, rec)
              IN  IF Len(more) >= num_results THEN Returned(more)
                  ELSE OrganicResults(more, Tail(items), num_results)

\* the loop of get_keyword_search_volumes, before the sort
RECURSIVE VolumeResults(_, _)
VolumeResults(results, items) ==
    IF items = <<>> THEN Returned(results)
    ELSE LET item == Head(items) IN
         IF ~Truthy(item) THEN VolumeResults(results, Tail(items))
         ELSE IF item.type # "dict" THEN Raises("AttributeError")
         ELSE LET f == item.fields
                  rec == WithGiven([keyword |-> GetOr(f, "keyword", <<>>),
                                    search_volume |-> OrZero(f, "search_volume"),
                                    competition_level |-> GetOr(f, "competition_level", "")],
                                   f, {"cpc", "competition"})
              IN  VolumeResults(Append(results, rec), Tail(items))

\* the loop of get_domain_ranked_keywords; up[i] says which way the i-th etv is
\* rounded when it is a tie
RECURSIVE RankedResults(_, _, _)
RankedResults(results, items, up) ==
    IF items = <<>> THEN Returned(results)
    ELSE LET item == Head(items) IN
         IF item.type # "dict" THEN Raises("AttributeError")
         ELSE LET f == item.fields
                  kd == GetOr(f, "keyword_data", <<>>)
                  ki == GetOr(kd, "keyword_info", <<>>)
                  se_item == GetOr(GetOr(f, "ranked_serp_element", <<>>), "serp_item", <<>>)
                  rec == [keyword |-> GetOr(kd, "keyword", <<>>),
                          search_volume |-> OrZero(ki, "search_volume"),
                          traffic_estimate |-> Rounded(OrZero(f, "etv"), 10, up[Len(results) + 1]),
                          url |-> GetOr(se_item, "url", <<>>)]
                         @@ (IF Has(se_item, "rank_group") THEN [rank |-> [int |-> se_item.rank_group]] ELSE <<>>)
              IN  RankedResults(Append(results, rec), Tail(items), up)

\* the list comprehension of get_bulk_keyword_difficulty
RECURSIVE DifficultyResults(_, _)
DifficultyResults(results, items) ==
    IF items = <<>> THEN Returned(results)
    ELSE LET item == Head(items) IN
         IF ~Truthy(item) THEN DifficultyResults(results, Tail(items))
         ELSE IF item.type # "dict" THEN Raises("AttributeError")
         ELSE DifficultyResults(
                  Append(results, WithGiven([keyword |-> GetOr(item.fields, "keyword", <<>>)],
                                            item.fields, {"keyword_difficulty"})),
                  Tail(items))

\* one adapter call: what it returns, or Raised when an exception leaves it
AdapterCall(call, response, up) ==
    IF call.fn \in {"get_keyword_search_volumes", "get_bulk_keyword_difficulty"} /\ call.keywords = <<>>
    THEN Returned(<<>>)
    ELSE LET posted == DfsPost(response) IN
         IF ~posted.ok THEN Raised
         ELSE LET found == Path(posted.val, ItemsPath(call.fn)) IN
              IF ~found.ok
              THEN IF found.exc \in ShapeErrors THEN Returned(<<>>) ELSE Raised
              ELSE IF ~Truthy(found.val) THEN Returned(<<>>)
              ELSE IF found.val.type # "list" THEN Raised
              ELSE LET items == found.val.items
                       built ==
                         CASE call.fn = "get_local_pack" -> LocalPackResults(<<>>, items, call.num_results)
                           [] call.fn = "get_organic_serp" -> OrganicResults(<<>>, items, call.num_results)
                           [] call.fn = "get_keyword_search_volumes" -> VolumeResults(<<>>, items)
                           [] call.fn = "get_domain_ranked_keywords" -> RankedResults(<<>>, items, up)
                           [] call.fn = "get_bulk_keyword_difficulty" -> DifficultyResults(<<>>, items)
                   IN  IF ~built.ok THEN Raised
                       ELSE IF call.fn = "get_keyword_search_volumes"
                       THEN Returned(SortedDesc([i \in 1..Len(built.val) |->
                                                   <<built.val[i].search_volume, built.val[i]>>]))
                       ELSE Returned(built.val)

\* number of items in a well-formed response
MaxItems == 2

\* the decimal numeral of n
RECURSIVE Numeral(_)
Numeral(n) ==
    IF n < 10 THEN <<DecimalDigits[n + 1]>>
    ELSE Append(Numeral(n \div 10), DecimalDigits[(n % 10) + 1])

\* a list of n different keywords
KeywordList(n) == [i \in 1..n |-> <<"k", "w", " ">> \o Numeral(i)]

\* keywords[:700] of get_keyword_search_volumes
VolumeCap == 700

\* keywords[:1000] of get_bulk_keyword_difficulty
DifficultyCap == 1000

\* the endpoint an adapter function posts to
Endpoint(fn) ==
    CASE fn = "get_local_pack" -> "serp/google/maps/live/advanced"
      [] fn = "get_organic_serp" -> "serp/google/organic/live/advanced"
      [] fn = "get_keyword_search_volumes" -> "keywords_data/google_ads/search_volume/live"
      [] fn = "get_domain_ranked_keywords" -> "dataforseo_labs/google/ranked_keywords/live"
      [] fn = "get_bulk_keyword_difficulty" -> "dataforseo_labs/google/bulk_keyword_difficulty/live"

\* keywords[:n]
FirstN(keywords, n) == SubSeq(keywords, 1, IF Len(keywords) < n THEN Len(keywords) ELSE n)

\* every keyword in one request
WholeListRequests(call) ==
    IF call.fn \in {"get_keyword_search_volumes", "get_bulk_keyword_difficulty"} /\ call.keywords = <<>>
    THEN <<>>
    ELSE <<[endpoint |-> Endpoint(call.fn), keywords |-> call.keywords]>>

\* the calls of _dfs_post an adapter function makes: none after the early return
\* on an empty keyword list, else one, whose payload has one task
AdapterRequests(call) ==
    IF call.fn \in {"get_keyword_search_volumes", "get_bulk_keyword_difficulty"} /\ call.keywords = <<>>
    THEN <<>>
    ELSE <<[endpoint |-> Endpoint(call.fn),
            keywords |-> CASE call.fn = "get_keyword_search_volumes" -> FirstN(call.keywords, VolumeCap)
                           [] call.fn = "get_bulk_keyword_difficulty" -> FirstN(call.keywords, DifficultyCap)
                           [] OTHER -> call.keywords]>>

\* the calls made of the adapters
AdapterCalls ==
    { [fn |-> "get_local_pack", keywords |-> <<<<"p","l","u","m","b","e","r"," ","m","e","s","a">>>>, num_results |-> 5],
      [fn |-> "get_organic_serp", keywords |-> <<<<"p","l","u","m","b","e","r"," ","m","e","s","a">>>>, num_results |-> 5],
      [fn |-> "get_keyword_search_volumes", keywords |-> <<<<"p","l","u","m","b","e","r"," ","m","e","s","a">>>>],
      [fn |-> "get_keyword_search_volumes", keywords |-> <<>>],
      [fn |-> "get_domain_ranked_keywords", keywords |-> <<>>],
      [fn |-> "get_bulk_keyword_difficulty", keywords |-> <<<<"p","l","u","m","b","e","r"," ","m","e","s","a">>>>],
      [fn |-> "get_bulk_keyword_difficulty", keywords |-> <<>>] }
    \cup { [fn |-> "get_keyword_search_volumes", keywords |-> KeywordList(n)] :
              n \in {VolumeCap - 1, VolumeCap, VolumeCap + 1} }
    \cup { [fn |-> "get_bulk_keyword_difficulty", keywords |-> KeywordList(n)] :
              n \in {DifficultyCap - 1, DifficultyCap, DifficultyCap + 1} }

\* items as the endpoint of the adapter sends them, and None
ItemsOf(fn) ==
    CASE fn = "get_local_pack" ->
           { JDict([type |-> "maps_element", title |-> "Ace Plumbing",
                    url |-> <<"h","t","t","p","s",":","/","/","w","w","w",".","a","c","e","p","l","u","m","b","i","n","g",".","c","o","m","/">>,
                    rating |-> [value |-> 47, votes_count |-> 120]]),
             JDict([type |-> "maps_paid_item", title |-> "Sponsored",
                    url |-> <<"h","t","t","p","s",":","/","/","a","d","s",".","e","x","a","m","p","l","e",".","c","o","m","/">>]),
             JDict([type |-> "maps_element", contact_url |-> <<"b","o","b","s","d","r","a","i","n","s",".","c","o","m","/","c","o","n","t","a","c","t">>]),
             JNull }
      [] fn = "get_organic_serp" ->
           { JDict([type |-> "organic", rank_group |-> 3, title |-> "Ace Plumbing",
                    url |-> <<"h","t","t","p","s",":","/","/","w","w","w",".","a","c","e","p","l","u","m","b","i","n","g",".","c","o","m","/","m","e","s","a">>]),
             JDict([type |-> "people_also_ask"]),
             JDict([type |-> "organic"]),
             JNull }
      [] fn = "get_keyword_search_volumes" ->
           { JDict([keyword |-> <<"p","l","u","m","b","e","r"," ","m","e","s","a">>, search_volume |-> 90, cpc |-> 30,
                    competition_level |-> "HIGH"]),
             JDict([keyword |-> <<"d","r","a","i","n"," ","c","l","e","a","n","i","n","g"," ","m","e","s","a">>, search_volume |-> 140]),
             JDict(<<>>),
             JNull }
      [] fn = "get_domain_ranked_keywords" ->
           { JDict([keyword_data |-> [keyword |-> <<"p","l","u","m","b","e","r"," ","m","e","s","a">>,
                                      keyword_info |-> [search_volume |-> 90]],
                    ranked_serp_element |-> [serp_item |-> [rank_group |-> 4,
                                      url |-> <<"h","t","t","p","s",":","/","/","a","c","e","p","l","u","m","b","i","n","g",".","c","o","m","/">>]],
                    etv |-> 1235]),
             JDict([keyword_data |-> [keyword |-> <<"d","r","a","i","n"," ","c","l","e","a","n","i","n","g"," ","m","e","s","a">>]]),
             JDict(<<>>),
             JNull }
      [] fn = "get_bulk_keyword_difficulty" ->
           { JDict([keyword |-> <<"p","l","u","m","b","e","r"," ","m","e","s","a">>, keyword_difficulty |-> 35]),
             JDict([keyword |-> <<"d","r","a","i","n"," ","c","l","e","a","n","i","n","g"," ","m","e","s","a">>]),
             JDict(<<>>),
             JNull }

\* the `result` values of a first task: absent is not among them
ResultShapes(fn) ==
    { JNull, JList(<<>>), JList(<<JNull>>), JList(<<JDict(<<>>)>>),
      JList(<<JDict([items |-> JNull])>>), JList(<<JDict([items |-> JList(<<>>)])>>) }
    \cup
    { IF fn = "get_keyword_search_volumes" THEN JList(items)
      ELSE JList(<<JDict([items |-> JList(items), items_count |-> Len(items)])>>) :
        items \in UNION {[1..n -> ItemsOf(fn)] : n \in 1..MaxItems} }

\* the JSON bodies of a response
DataShapes(fn) ==
    { JDict(<<>>), JDict([status_code |-> 20000]),
      JDict([status_code |-> 40100, status_message |-> "Not Authorized"]),
      JDict([tasks |-> JNull]), JDict([tasks |-> JList(<<>>)]),
      JDict([tasks |-> JList(<<JNull>>)]),
      JDict([tasks |-> JList(<<JDict(<<>>)>>)]),
      JDict([tasks |-> JList(<<JDict([status_code |-> 40501, status_message |-> "Invalid Field"])>>)]) }
    \cup
    { JDict([status_code |-> 20000,
             tasks |-> JList(<<JDict([status_code |-> 20000, result |-> result])>>)]) :
        result \in ResultShapes(fn) }

InitAdapter ==
    /\ pc = "adapter_start"
    /\ adapter_call \in AdapterCalls
    /\ dfs_response \in {Raised} \cup {Returned(data) : data \in DataShapes(adapter_call.fn)}
    /\ adapter_result = <<>>
    /\ dfs_requests = <<>>
    /\ GapIdle /\ PillarIdle /\ DiscIdle /\ TrafficIdle /\ ProfileIdle /\ LeaderIdle /\ WorkflowIdle /\ MetroIdle /\ NormIdle /\ FormatIdle /\ AdValueIdle /\ ServerIdle

\* one call of an adapter function, to its return or to the exception leaving it.
\* _dfs_post raises before client.post when _auth_header finds no credentials and
\* after it on a transport error: a call that raised has sent its request or not.
CallAdapter ==
    /\ pc = "adapter_start"
    /\ \E up \in [1..MaxItems -> BOOLEAN] :
          adapter_result' = AdapterCall(adapter_call, dfs_response, up)
    /\ \E sent \in (IF ~dfs_response.ok THEN BOOLEAN ELSE {TRUE}) :
          dfs_requests' = IF sent THEN AdapterRequests(adapter_call) ELSE <<>>
    /\ pc' = "adapter_done"
    /\ UNCHANGED <<adapter_call, dfs_response, gapVars, pillarVars, discVars, trafVars, profVars, leaderVars, flowVars, metroVars, normVars, formatVars, adVars, srvVars>>

SpecAdapter == InitAdapter /\ [][CallAdapter]_vars

(***************************************************************************)
(* Claims about the adapter functions                                      *)
(***************************************************************************)
\* the call reaches the provider (an empty keyword list returns [] before it does)
CallPosted ==
    /\ dfs_response.ok
    /\ adapter_call.fn \in {"get_keyword_search_volumes", "get_bulk_keyword_difficulty"}
          => adapter_call.keywords # <<>>

HasKey(v, k) == v.type = "dict" /\ k \in DOMAIN v.fields

\* v is None, [] or {}, or the key is not there at all
Missing(v, k) == ~HasKey(v, k) \/ v.fields[k] \in {JNull, JList(<<>>), JDict(<<>>)}

\* the body reports success (a status_code, where given, is 20000)
NoErrorStatus(v) == HasKey(v, "status_code") => v.fields.status_code = 20000

\* the response has no `tasks` key
TasksMissing(data) == NoErrorStatus(data) /\ ~HasKey(data, "tasks")

\* the response has no first task: tasks is missing, None or [], or its first
\* element is None
NoFirstTask(data) ==
    /\ NoErrorStatus(data)
    /\ \/ Missing(data, "tasks")
       \/ data.fields.tasks.type = "list" /\ data.fields.tasks.items[1] = JNull

\* the response has a first task that reports success, and where the adapter
\* looks for its items (result, or result[0].items) a key is missing or holds
\* None or an empty list
ItemsMissing(fn, data) ==
    /\ NoErrorStatus(data)
    /\ ~Missing(data, "tasks") /\ data.fields.tasks.type = "list"
    /\ LET task == data.fields.tasks.items[1] IN
       /\ task.type = "dict" /\ NoErrorStatus(task)
       /\ \/ Missing(task, "result")
          \/ /\ fn # "get_keyword_search_volumes"
             /\ task.fields.result.type = "list"
             /\ LET first == task.fields.result.items[1] IN
                first = JNull \/ (first.type = "dict" /\ Missing(first, "items"))

\* C17 as stated: a response in which tasks, result or items is missing is turned
\* into an empty result and raises nothing past the adapter function.
C17_UnrecognisedShapeIsEmpty ==
    ( /\ pc = "adapter_done" /\ CallPosted
      /\ TasksMissing(dfs_response.val) \/ ItemsMissing(adapter_call.fn, dfs_response.val) )
        => adapter_result = Returned(<<>>)

\* C17 amended: when the response has a first task and result or items is missing,
\* None or empty, every adapter function returns an empty list and raises nothing;
\* when the response has no first task, _dfs_post raises and the exception leaves
\* the adapter function.
C17_MissingItemsEmptyMissingTaskRaises ==
    (pc = "adapter_done" /\ CallPosted) =>
        /\ ItemsMissing(adapter_call.fn, dfs_response.val) => adapter_result = Returned(<<>>)
        /\ NoFirstTask(dfs_response.val) => adapter_result = Raised

\* C17 witness: get_domain_ranked_keywords was answered with a result whose first
\* element has no `items` key, and returned an empty list.
C17_Witness ==
    /\ pc = "adapter_done"
    /\ adapter_call.fn = "get_domain_ranked_keywords"
    /\ dfs_response.ok
    /\ ItemsMissing(adapter_call.fn, dfs_response.val)
    /\ HasKey(dfs_response.val.fields.tasks.items[1], "result")
    /\ dfs_response.val.fields.tasks.items[1].fields.result = JList(<<JDict(<<>>)>>)
    /\ adapter_result = Returned(<<>>)

\* C25: a keyword-volume lookup sends at most 700 keywords, the first 700 of
\* its input, in one request, and a difficulty lookup at most 1000; with an
\* empty keyword list neither sends a request and both return the empty list;
\* no adapter function sends more than one request in one invocation.
C25_OneCappedRequest ==
    pc = "adapter_done" =>
        /\ Len(dfs_requests) <= 1
        /\ \A i \in 1..Len(dfs_requests) :
              LET sent == dfs_requests[i].keywords
                  cap == CASE adapter_call.fn = "get_keyword_search_volumes" -> 700
                           [] adapter_call.fn = "get_bulk_keyword_difficulty" -> 1000
                           [] OTHER -> Len(adapter_call.keywords)
              IN  /\ Len(sent) <= cap
                  /\ Len(sent) <= Len(adapter_call.keywords)
                  /\ Len(sent) = cap \/ Len(sent) = Len(adapter_call.keywords)
                  /\ \A k \in 1..Len(sent) : sent[k] = adapter_call.keywords[k]
        /\ ( /\ adapter_call.fn \in {"get_keyword_search_volumes", "get_bulk_keyword_difficulty"}
             /\ adapter_call.keywords = <<>> )
              => dfs_requests = <<>> /\ adapter_result = Returned(<<>>)

C25_Witness ==
    /\ pc = "adapter_done"
    /\ adapter_call.fn = "get_keyword_search_volumes"
    /\ Len(adapter_call.keywords) = 701
    /\ Len(dfs_requests) = 1
    /\ Len(dfs_requests[1].keywords) = 700
    /\ dfs_requests[1].keywords[700] = adapter_call.keywords[700]

(***************************************************************************)
(* asyncio.gather in _discover_metro_competitors and _profile_competitors: *)
(* the two fan-out phases side by side                                     *)
(***************************************************************************)
SpecFanOut == (InitDiscover \/ InitProfile) /\ [][NextDiscover \/ NextProfile]_vars

\* the task of the input domain a profile belongs to
TaskOf(profile) == CHOOSE k \in 1..Len(profile_domains) :
    profile_domains[k].domain = profile.domain
SearchOutstanding == \E i \in 1..Len(city_tasks) : ~city_tasks[i].done
FetchOutstanding == \E i \in 1..Len(fetch_tasks) : ~fetch_tasks[i].done

\* C18: while a call of a fan-out phase is outstanding the phase has aggregated
\* nothing; once aggregated, the result is fixed by the calls' results taken in
\* input order, whatever order they completed in: the discovery result is the
\* aggregate over the locales in input order, and the profiles are one per
\* fetch, by traffic descending, equal traffic in input order.
C18_JoinBeforeAggregate ==
    /\ SearchOutstanding => (pc = "disc_start" \/ ~dfs_login) /\ domain_city_map = <<>>
    /\ FetchOutstanding => pc = "prof_start" /\ profiles = <<>>
    /\ (pc = "disc_done" /\ dfs_login) =>
          domain_city_map =
              TopDomains(DomainCities(<<>>, metro_cities,
                  [k \in 1..Len(city_tasks) |-> Contribution(k)]))
    /\ (pc = "prof_done" /\ profile_domains # <<>>) =>
          /\ Len(profiles) = Len(fetch_tasks)
          /\ \A k \in 1..Len(fetch_tasks) : \E i \in 1..Len(profiles) :
                /\ TaskOf(profiles[i]) = k
                /\ profiles[i].traffic = fetch_tasks[k].profile.traffic
                /\ profiles[i].cities = fetch_tasks[k].profile.cities
          /\ \A i, j \in 1..Len(profiles) :
                i < j =>
                    \/ profiles[i].traffic > profiles[j].traffic
                    \/ /\ profiles[i].traffic = profiles[j].traffic
                       /\ TaskOf(profiles[i]) < TaskOf(profiles[j])

\* C18 witness: four searches were gathered, the first two failed, and a domain
\* found by the last two is listed with their locales in input order.
C18_Witness ==
    /\ pc = "disc_done" /\ dfs_login
    /\ Len(metro_cities) = 4
    /\ ~SearchOutstanding
    /\ LocaleFailed(1) /\ LocaleFailed(2)
    /\ \E i \in 1..Len(domain_city_map) :
          domain_city_map[i].cities = <<metro_cities[3], metro_cities[4]>>

(***************************************************************************)
(* The formatting layer: the Competition cell of a pillar row in           *)
(* _build_keyword_pillar_table, and _extract_mentioned_cities              *)
(*                                                                         *)
(* Both iterate a set of str.  The iteration order of such a set follows   *)
(* the hashes of its members, which the interpreter salts per process      *)
(* (PYTHONHASHSEED, random by default): a run can meet the members in any  *)
(* order.  The em dash of an empty cell is written "-".                    *)
(***************************************************************************)
\* \w of the re module, on ASCII text
IsWordChar(c) == IsLetter(c) \/ c \in {"0","1","2","3","4","5","6","7","8","9","_"}

\* re.search(r'\b' + re.escape(word) + r'\b', text), for a word that begins and
\* ends with a word character
WordSearch(word, text) ==
    \E p \in 1..(Len(text) - Len(word) + 1) :
        /\ SubSeq(text, p, p + Len(word) - 1) = word
        /\ p = 1 \/ ~IsWordChar(text[p - 1])
        /\ p + Len(word) - 1 = Len(text) \/ ~IsWordChar(text[p + Len(word)])

\* the orders in which a run can iterate the set S of str
HashOrders(S) ==
    {order \in [1..Cardinality(S) -> S] : \A x \in S : \E i \in 1..Cardinality(S) : order[i] = x}

\* comp_str of a pillar row, title-cased as the row prints it:
\* max(set(comp_levels), key=comp_levels.count), the set iterated in `order`
CompetitionCell(kw_list, order) ==
    LET with_level == SelectSeq(kw_list, LAMBDA k : Has(k, "competition_level")
                                                     /\ k.competition_level # <<>>)
        comp_levels == [i \in 1..Len(with_level) |-> with_level[i].competition_level]
        count(x) == Cardinality({i \in 1..Len(comp_levels) : comp_levels[i] = x})
    IN  IF comp_levels = <<>> THEN <<"-">>
        ELSE Title(order[CHOOSE i \in 1..Len(order) :
                       /\ \A j \in 1..Len(order) : count(order[j]) <= count(order[i])
                       /\ \A j \in 1..(i - 1) : count(order[j]) < count(order[i])])

\* all_known: every city of _METRO_LOOKUP, lowercased
AllKnown ==
    UNION { {Lower(METRO_LOOKUP[i][3][j]) : j \in 1..Len(METRO_LOOKUP[i][3])} :
            i \in 1..Len(METRO_LOOKUP) }

\* the body of `for city_lower in all_known` past the re.search, for the known
\* cities found in the text, in the order the loop meets them
RECURSIVE MentionedFrom(_, _, _)
MentionedFrom(order, arg_cities, mentioned) ==
    IF order = <<>> THEN mentioned
    ELSE LET city_title == Title(Head(order))
             skip == \/ \E i \in 1..Len(arg_cities) : Lower(arg_cities[i]) = Head(order)
                     \/ \E i \in 1..Len(mentioned) : mentioned[i] = city_title
         IN  MentionedFrom(Tail(order), arg_cities,
                           IF skip THEN mentioned ELSE Append(mentioned, city_title))

\* the known cities that re.search finds in text.lower()
FoundIn(text) == {c \in AllKnown : WordSearch(c, Lower(text))}

\* _extract_mentioned_cities(text, metro_cities), all_known iterated so that the
\* cities found are met in `order`
ExtractMentionedCities(text, arg_cities, order) == MentionedFrom(order, arg_cities, <<>>)

\* number of keyword records of the pillar (a pillar with a row has at least one)
MaxLevels == 3

\* keyword records of a pillar, by their competition_level: two levels, none
LevelRecords ==
    { [competition_level |-> <<"H","I","G","H">>],
      [competition_level |-> <<"L","O","W">>],
      [search_volume |-> 10] }

\* notes + " " + strategy_context
NoteTexts ==
    { <<>>,
      <<"W","e"," ","a","l","s","o"," ","s","e","r","v","e"," ","S","a","n"," ","T","a","n"," ","V","a","l","l","e","y"," ","a","n","d"," ","S","c","o","t","t","s","d","a","l","e",".">>,
      <<"B","a","s","e","d"," ","i","n"," ","M","e","s","a",","," ","s","e","r","v","i","n","g"," ","Q","u","e","e","n"," ","C","r","e","e","k">>,
      <<"S","c","o","t","t","s","d","a","l","e"," ","o","n","l","y">>,
      <<"M","e","s","a","b","i"," ","r","a","n","g","e",","," ","T","e","m","p","e","s","t">> }

InitFormat ==
    /\ pc = "fmt_start"
    /\ \E kw_list \in SeqUpTo(LevelRecords, MaxLevels) \ {<<>>}, text \in NoteTexts :
          format_input =
              [kw_list |-> kw_list, text |-> text,
               arg_cities |-> GetMetroCities(<<"G","i","l","b","e","r","t">>, <<"A","Z">>, 5)]
    /\ first_run = <<>>
    /\ second_run = <<>>
    /\ GapIdle /\ PillarIdle /\ DiscIdle /\ TrafficIdle /\ ProfileIdle /\ LeaderIdle /\ WorkflowIdle /\ MetroIdle /\ NormIdle /\ AdapterIdle /\ AdValueIdle /\ ServerIdle

\* the Competition cell and the extra cities of one run
FormatRun(levels_order, cities_order) ==
    [competition |-> CompetitionCell(format_input.kw_list, levels_order),
     extra_cities |-> ExtractMentionedCities(format_input.text, format_input.arg_cities,
                                             cities_order)]

\* the competition levels of the pillar's keyword records, as a set
LevelSet ==
    {format_input.kw_list[i].competition_level :
        i \in {j \in 1..Len(format_input.kw_list) :
                  Has(format_input.kw_list[j], "competition_level")}}

\* one run of the report formatting
FormatReport ==
    /\ pc = "fmt_start"
    /\ \E levels_order \in HashOrders(LevelSet),
          cities_order \in HashOrders(FoundIn(format_input.text)) :
          first_run' = FormatRun(levels_order, cities_order)
    /\ pc' = "fmt_once"
    /\ UNCHANGED <<format_input, second_run, gapVars, pillarVars, discVars, trafVars, profVars, leaderVars, flowVars, metroVars, normVars, adapterVars, adVars, srvVars>>

\* another run on the same input, in this process or in another
FormatAgain ==
    /\ pc = "fmt_once"
    /\ \E levels_order \in HashOrders(LevelSet),
          cities_order \in HashOrders(FoundIn(format_input.text)) :
          second_run' = FormatRun(levels_order, cities_order)
    /\ pc' = "fmt_twice"
    /\ UNCHANGED <<format_input, first_run, gapVars, pillarVars, discVars, trafVars, profVars, leaderVars, flowVars, metroVars, normVars, adapterVars, adVars, srvVars>>

NextFormat == FormatReport \/ FormatAgain
SpecFormat == InitFormat /\ [][NextFormat]_vars

\* C20: two runs of the formatting on the same structured input give the same
\* output: the same Competition cell, also when two levels are equally frequent,
\* and the same extra cities in the same order, also when several are mentioned.
C20_ByteStable ==
    pc = "fmt_twice" => second_run = first_run

(***************************************************************************)
(* The annual ad values of the report: _build_keyword_pillar_table,        *)
(* _build_high_value_keyword_table, _build_why_this_matters_box and        *)
(* _build_total_ads_cost_callout, as run_prospect_audit calls them for a   *)
(* keyword volume list of one record.                                      *)
(*                                                                         *)
(* A cpc is held in cents.  A place of the report holds <<dollars>> when   *)
(* it prints an annual value (_fmt_dollar prints int(n)), and <<>> when it *)
(* prints a dash or is not rendered.  The inputs are such that the float   *)
(* products of the code equal the exact ones.                              *)
(***************************************************************************)
\* _fmt_dollar(n) for n = hundredths / 100: a dash for 0, else int(n)
FmtDollar(hundredths) == IF hundredths = 0 THEN <<>> ELSE <<hundredths \div 100>>

\* vol * 0.10 * cpc * 12, in hundredths of a dollar
AnnualValue(vol, cpc) == (vol * cpc * 12) \div 10

\* round(vol * 0.10): to the nearest integer, a half to the even one
MonthlyClicks(vol) ==
    LET q == vol \div 10
        r == vol % 10
    IN  IF r < 5 THEN q
        ELSE IF r > 5 THEN q + 1
        ELSE IF q % 2 = 0 THEN q ELSE q + 1

\* monthly_clicks * cpc * 12, in hundredths of a dollar
AnnualFromClicks(vol, cpc) == MonthlyClicks(vol) * cpc * 12

\* the largest monthly search volume of the record
MaxMonthly == 40

\* cpc values, in cents: none, below the high-value threshold of $20, at it, above
CpcInputs == {0, 1500, 2000, 2550, 4500}

InitAdValue ==
    /\ pc = "ad_start"
    /\ \E vol \in 0..MaxMonthly, cpc \in CpcInputs :
          ad_kw = [search_volume |-> vol, cpc |-> cpc]
    /\ ad_report = <<>>
    /\ GapIdle /\ PillarIdle /\ DiscIdle /\ TrafficIdle /\ ProfileIdle /\ LeaderIdle /\ WorkflowIdle /\ MetroIdle /\ NormIdle /\ AdapterIdle /\ FormatIdle /\ ServerIdle

\* high_value: the records with cpc >= 20 and a positive volume
HighValueKws ==
    IF ad_kw.cpc >= 2000 /\ ad_kw.search_volume > 0 THEN <<ad_kw>> ELSE <<>>

\* _build_keyword_pillar_table: the Est. Annual Ad Value cell of the row of the
\* keyword's pillar; no row for a total volume of 0
BuildPillarTable ==
    /\ pc = "ad_start"
    /\ ad_report' =
          [pillar |-> IF ad_kw.search_volume = 0 THEN <<>>
                      ELSE FmtDollar(AnnualValue(ad_kw.search_volume, ad_kw.cpc))]
    /\ pc' = "ad_pillar"
    /\ UNCHANGED <<ad_kw, gapVars, pillarVars, discVars, trafVars, profVars, leaderVars, flowVars, metroVars, normVars, adapterVars, formatVars, srvVars>>

\* _build_high_value_keyword_table: the Annual Value cell of the keyword's row
BuildHighValueTable ==
    /\ pc = "ad_pillar"
    /\ ad_report' = ad_report @@
          [high_value |-> IF HighValueKws = <<>> THEN <<>>
                          ELSE FmtDollar(AnnualValue(HighValueKws[1].search_volume,
                                                     HighValueKws[1].cpc))]
    /\ pc' = "ad_table"
    /\ UNCHANGED <<ad_kw, gapVars, pillarVars, discVars, trafVars, profVars, leaderVars, flowVars, metroVars, normVars, adapterVars, formatVars, srvVars>>

\* _build_why_this_matters_box: the "Over 12 months" value
BuildWhyThisMattersBox ==
    /\ pc = "ad_table"
    /\ ad_report' = ad_report @@
          [why_box |-> IF HighValueKws = <<>> THEN <<>>
                       ELSE FmtDollar(100 * (AnnualFromClicks(HighValueKws[1].search_volume,
                                                              HighValueKws[1].cpc) \div 100))]
    /\ pc' = "ad_box"
    /\ UNCHANGED <<ad_kw, gapVars, pillarVars, discVars, trafVars, profVars, leaderVars, flowVars, metroVars, normVars, adapterVars, formatVars, srvVars>>

\* _build_total_ads_cost_callout(total_searches, avg_cpc, high_value_kws): the
\* per-year value of the metro and the per-year value of the top keyword
BuildTotalAdsCostCallout ==
    /\ pc = "ad_box"
    /\ LET total == ad_kw.search_volume
           avg_cpc == ad_kw.cpc
           rendered == total # 0 /\ avg_cpc # 0
       IN  ad_report' = ad_report @@
              [callout_total |->
                   IF rendered
                   THEN FmtDollar(100 * (AnnualFromClicks(total, avg_cpc) \div 100))
                   ELSE <<>>,
               callout_keyword |->
                   IF rendered /\ HighValueKws # <<>>
                   THEN FmtDollar(100 * (AnnualFromClicks(HighValueKws[1].search_volume,
                                                          HighValueKws[1].cpc) \div 100))
                   ELSE <<>>]
    /\ pc' = "ad_done"
    /\ UNCHANGED <<ad_kw, gapVars, pillarVars, discVars, trafVars, profVars, leaderVars, flowVars, metroVars, normVars, adapterVars, formatVars, srvVars>>

NextAdValue ==
    \/ BuildPillarTable
    \/ BuildHighValueTable
    \/ BuildWhyThisMattersBox
    \/ BuildTotalAdsCostCallout
SpecAdValue == InitAdValue /\ [][NextAdValue]_vars

\* C24: every place of the report that shows an annual ad value for the keyword
\* (or for the pillar and the metro total it makes up alone) shows
\* volume x 0.10 x cpc x 12, so no two places show different values.
C24_OneAnnualValue ==
    pc = "ad_done" =>
        \A place \in DOMAIN ad_report :
            ad_report[place] # <<>> =>
                ad_report[place] = <<(ad_kw.search_volume * ad_kw.cpc * 12) \div 1000>>

(***************************************************************************)
(* server.py: the event streams of run_workflow and edit_document over the *)
(* jobs table of utils/db.py.  A request's generator moves from one yield  *)
(* or await to the next in one step; requests served at the same time      *)
(* interleave at these points.  trace[r] holds, in order, the events sent  *)
(* to request r, the store calls it completed and the exceptions raised.   *)
(***************************************************************************)

\* the most tokens one stream yields
MaxTokens == 2

\* workflows of WORKFLOW_TITLES: one that needs SEARCHATLAS_API_KEY, one that
\* does not, and page-design
StreamWorkflows == {"prospect-audit", "seo-blog-post", "page-design"}

NeedsSaKey(wf) == wf \in {"website-seo-audit", "prospect-audit"}

\* the text of the i-th token of request r
TokenText(r, i) == <<IF r = 1 THEN "a" ELSE "b", DecimalDigits[i + 1]>>

\* "".join(full_content)
RECURSIVE JoinTokens(_)
JoinTokens(tokens) ==
    IF tokens = <<>> THEN <<>> ELSE Head(tokens) \o JoinTokens(Tail(tokens))

Entry(type, name) == [type |-> type, name |-> name]

NoPath == <<>>

NoLocals == [full_content |-> <<>>, job |-> [found |-> FALSE], docx_path |-> NoPath]

\* get_job: the row of job_id, or None
GetJob(rows, job_id) ==
    IF job_id \in DOMAIN rows THEN [found |-> TRUE, row |-> rows[job_id]]
    ELSE [found |-> FALSE]

\* INSERT OR REPLACE INTO jobs: job_data has no docx_path
SaveJobRow(rows, job_id, wf, content) ==
    (job_id :> [workflow_id |-> wf, content |-> content, docx_path |-> NoPath]) @@ rows

\* UPDATE jobs SET docx_path = ? WHERE job_id = ?
UpdateDocxPathRow(rows, job_id, path) ==
    IF job_id \in DOMAIN rows THEN [rows EXCEPT ![job_id].docx_path = path] ELSE rows

\* update_job_content: the content of the row of job_id
UpdateJobContentRow(rows, job_id, content) ==
    IF job_id \in DOMAIN rows THEN [rows EXCEPT ![job_id].content = content] ELSE rows

\* generate_docx returns the path of the document it wrote: one path for a
\* job, or a path of its own for every call
DocxPaths(job_id, r) == {<<job_id>>, <<job_id, r>>}

\* where an exception takes the generator: every exception inside run_workflow's
\* try reaches an except clause that yields an error event; edit_document yields
\* an error event for its model stream and passes over one of its store calls
AlwaysDone(endpoint, phase) == "emit_done"

AlwaysError(endpoint, phase) == "raised"

ExceptTarget(endpoint, phase) ==
    IF endpoint = "edit-document" /\ phase = "persist" THEN "emit_done" ELSE "raised"

\* run_workflow after save_job: the docx is skipped for page-design
SkipDocx(wf) == "emit_done"

AfterSave(wf) == IF wf # "page-design" THEN "docx" ELSE "emit_done"

\* the job a stored edit is made of
OrigContent == <<"o", "0">>

OrigPath == <<"job1">>

StoredJobs(wf) == "job1" :> [workflow_id |-> wf, content |-> OrigContent,
                             docx_path |-> IF wf = "page-design" THEN NoPath ELSE OrigPath]

StoredDocx(wf) == IF wf = "page-design" THEN <<>> ELSE OrigPath :> OrigContent

InitRunWorkflow ==
    /\ pc = "serving"
    /\ sa_key \in BOOLEAN
    /\ \E wf \in StreamWorkflows :
          requests = <<[endpoint |-> "run-workflow", workflow_id |-> wf, job_id |-> "new"]>>
    /\ at = <<"route">>
    /\ req_locals = <<NoLocals>>
    /\ trace = << <<>> >>
    /\ \E wf \in {"seo-blog-post", "page-design"} :
          /\ db_jobs \in {<<>>, StoredJobs(wf)}
          /\ docx_files = IF db_jobs = <<>> THEN <<>> ELSE StoredDocx(wf)
    /\ GapIdle /\ PillarIdle /\ DiscIdle /\ TrafficIdle /\ ProfileIdle /\ LeaderIdle /\ WorkflowIdle /\ MetroIdle /\ NormIdle /\ AdapterIdle /\ FormatIdle /\ AdValueIdle

InitEditDocument ==
    /\ pc = "serving"
    /\ sa_key \in BOOLEAN
    /\ \E j1, j2 \in {"job1", "nojob"} :
          requests = <<[endpoint |-> "edit-document", job_id |-> j1],
                       [endpoint |-> "edit-document", job_id |-> j2]>>
    /\ at = <<"streaming", "streaming">>
    /\ req_locals = <<NoLocals, NoLocals>>
    /\ trace = << <<>>, <<>> >>
    /\ \E wf \in {"seo-blog-post", "page-design"} :
          /\ db_jobs = StoredJobs(wf)
          /\ docx_files = StoredDocx(wf)
    /\ GapIdle /\ PillarIdle /\ DiscIdle /\ TrafficIdle /\ ProfileIdle /\ LeaderIdle /\ WorkflowIdle /\ MetroIdle /\ NormIdle /\ AdapterIdle /\ FormatIdle /\ AdValueIdle

\* request r moves to position `to` and its trace gains the entries
Step(r, to, entries) ==
    /\ at' = [at EXCEPT ![r] = to]
    /\ trace' = [trace EXCEPT ![r] = @ \o entries]
    /\ UNCHANGED <<pc, sa_key, requests, gapVars, pillarVars, discVars, trafVars, profVars, leaderVars,
                   flowVars, metroVars, normVars, adapterVars, formatVars, adVars>>

\* run_workflow.event_stream routes the request: the workflows that need
\* SEARCHATLAS_API_KEY yield an error event and return when it is not set
RouteWorkflow ==
    \E r \in DOMAIN requests :
        /\ at[r] = "route"
        /\ IF NeedsSaKey(requests[r].workflow_id) /\ ~sa_key
           THEN Step(r, "closed", <<Entry("event", "error")>>)
           ELSE Step(r, "streaming", <<>>)
        /\ UNCHANGED <<req_locals, db_jobs, docx_files>>

\* async for token in generator: the token is kept and sent
YieldToken ==
    \E r \in DOMAIN requests :
        /\ at[r] = "streaming"
        /\ Len(req_locals[r].full_content) < MaxTokens
        /\ req_locals' = [req_locals EXCEPT ![r].full_content =
                              Append(@, TokenText(r, Len(@) + 1))]
        /\ Step(r, "streaming", <<Entry("event", "token")>>)
        /\ UNCHANGED <<db_jobs, docx_files>>

\* the generator, or the model stream of edit_document, raises
StreamRaises ==
    \E r \in DOMAIN requests :
        /\ at[r] = "streaming"
        /\ Step(r, ExceptTarget(requests[r].endpoint, "stream"), <<Entry("raise", "generator")>>)
        /\ UNCHANGED <<req_locals, db_jobs, docx_files>>

\* run_workflow: the generator is exhausted; save_job stores the job or raises
SaveJob ==
    \E r \in DOMAIN requests :
        /\ at[r] = "streaming"
        /\ requests[r].endpoint = "run-workflow"
        /\ \/ /\ db_jobs' = SaveJobRow(db_jobs, requests[r].job_id, requests[r].workflow_id,
                                       JoinTokens(req_locals[r].full_content))
              /\ Step(r, AfterSave(requests[r].workflow_id), <<Entry("call", "save_job")>>)
           \/ /\ UNCHANGED db_jobs
              /\ Step(r, ExceptTarget(requests[r].endpoint, "persist"), <<Entry("raise", "save_job")>>)
        /\ UNCHANGED <<req_locals, docx_files>>

\* edit_document: the model stream is complete; db_get_job looks the job up
LookupJob ==
    \E r \in DOMAIN requests :
        /\ at[r] = "streaming"
        /\ requests[r].endpoint = "edit-document"
        /\ \/ LET job == GetJob(db_jobs, requests[r].job_id) IN
              /\ req_locals' = [req_locals EXCEPT ![r].job = job]
              /\ Step(r, IF job.found THEN "update_content" ELSE "emit_done", <<>>)
           \/ /\ UNCHANGED req_locals
              /\ Step(r, ExceptTarget(requests[r].endpoint, "persist"), <<Entry("raise", "get_job")>>)
        /\ UNCHANGED <<db_jobs, docx_files>>

\* edit_document: update_job_content stores the edited content or raises
UpdateJobContent ==
    \E r \in DOMAIN requests :
        /\ at[r] = "update_content"
        /\ \/ /\ db_jobs' = UpdateJobContentRow(db_jobs, requests[r].job_id,
                                                JoinTokens(req_locals[r].full_content))
              /\ Step(r, IF req_locals[r].job.row.workflow_id # "page-design"
                         THEN "docx" ELSE "emit_done",
                      <<Entry("call", "update_job_content")>>)
           \/ /\ UNCHANGED db_jobs
              /\ Step(r, ExceptTarget(requests[r].endpoint, "persist"),
                      <<Entry("raise", "update_job_content")>>)
        /\ UNCHANGED <<req_locals, docx_files>>

\* generate_docx writes the document of the request's content or raises
GenerateDocx ==
    \E r \in DOMAIN requests :
        /\ at[r] = "docx"
        /\ \/ \E path \in DocxPaths(requests[r].job_id, r) :
                /\ docx_files' = (path :> JoinTokens(req_locals[r].full_content)) @@ docx_files
                /\ req_locals' = [req_locals EXCEPT ![r].docx_path = path]
                /\ Step(r, "docx_path", <<Entry("call", "generate_docx")>>)
           \/ /\ UNCHANGED <<docx_files, req_locals>>
              /\ Step(r, ExceptTarget(requests[r].endpoint, "persist"),
                      <<Entry("raise", "generate_docx")>>)
        /\ UNCHANGED db_jobs

\* update_docx_path stores the document's path or raises
UpdateDocxPath ==
    \E r \in DOMAIN requests :
        /\ at[r] = "docx_path"
        /\ \/ /\ db_jobs' = UpdateDocxPathRow(db_jobs, requests[r].job_id, req_locals[r].docx_path)
              /\ Step(r, "emit_done", <<Entry("call", "update_docx_path")>>)
           \/ /\ UNCHANGED db_jobs
              /\ Step(r, ExceptTarget(requests[r].endpoint, "persist"),
                      <<Entry("raise", "update_docx_path")>>)
        /\ UNCHANGED <<req_locals, docx_files>>

\* the done event ends the stream
EmitDone ==
    \E r \in DOMAIN requests :
        /\ at[r] = "emit_done"
        /\ Step(r, "closed", <<Entry("event", "done")>>)
        /\ UNCHANGED <<req_locals, db_jobs, docx_files>>

\* an except clause yields the error event, which ends the stream
EmitError ==
    \E r \in DOMAIN requests :
        /\ at[r] = "raised"
        /\ Step(r, "closed", <<Entry("event", "error")>>)
        /\ UNCHANGED <<req_locals, db_jobs, docx_files>>

NextRunWorkflow ==
    \/ RouteWorkflow
    \/ YieldToken
    \/ StreamRaises
    \/ SaveJob
    \/ GenerateDocx
    \/ UpdateDocxPath
    \/ EmitDone
    \/ EmitError

SpecRunWorkflow == InitRunWorkflow /\ [][NextRunWorkflow]_vars

NextEditDocument ==
    \/ YieldToken
    \/ StreamRaises
    \/ LookupJob
    \/ UpdateJobContent
    \/ GenerateDocx
    \/ UpdateDocxPath
    \/ EmitDone
    \/ EmitError

SpecEditDocument == InitEditDocument /\ [][NextEditDocument]_vars

\* the places of request r's trace that hold the entry
Positions(r, type, name) ==
    {i \in 1..Len(trace[r]) : trace[r][i] = Entry(type, name)}

\* the places of the done and error events of request r
Terminals(r) == Positions(r, "event", "done") \cup Positions(r, "event", "error")

\* the places of the store calls request r completed
StoreCalls(r) == {i \in 1..Len(trace[r]) : trace[r][i].type = "call"}

\* C26: in the event stream of run_workflow a done event is sent at most once,
\* after every token event, after save_job has completed for the job and, for
\* every workflow but page-design, after generate_docx and update_docx_path
\* have completed; nothing follows the done event.
C26_DoneAfterPersist ==
    \A r \in DOMAIN requests :
        LET done == Positions(r, "event", "done") IN
        /\ Cardinality(done) <= 1
        /\ \A d \in done :
              /\ d = Len(trace[r])
              /\ \A t \in Positions(r, "event", "token") : t < d
              /\ \E s \in Positions(r, "call", "save_job") :
                    /\ s < d
                    /\ requests[r].workflow_id # "page-design" =>
                          \E g \in Positions(r, "call", "generate_docx"),
                             u \in Positions(r, "call", "update_docx_path") :
                                s < g /\ g < u /\ u < d
              /\ requests[r].job_id \in DOMAIN db_jobs
              /\ db_jobs[requests[r].job_id].content = JoinTokens(req_locals[r].full_content)
              /\ requests[r].workflow_id # "page-design" =>
                    /\ db_jobs[requests[r].job_id].docx_path # NoPath
                    /\ db_jobs[requests[r].job_id].docx_path = req_locals[r].docx_path

C26_Witness ==
    /\ 1 \in DOMAIN requests
    /\ requests[1].endpoint = "run-workflow"
    /\ requests[1].workflow_id = "prospect-audit"
    /\ at[1] = "closed"
    /\ Len(req_locals[1].full_content) = 2
    /\ Positions(1, "event", "done") = {Len(trace[1])}
    /\ Positions(1, "call", "update_docx_path") # {}

\* C27: when the workflow generator raises, after any number of tokens, the
\* stream of run_workflow ends with one error event and no done event, save_job
\* is not called for the job and the job is not stored; every stream that has
\* ended has exactly one done or error event, its last.
C27_RaiseEndsWithError ==
    \A r \in DOMAIN requests :
        /\ Positions(r, "raise", "generator") # {} =>
              /\ Positions(r, "call", "save_job") = {}
              /\ Positions(r, "event", "done") = {}
              /\ requests[r].job_id \notin DOMAIN db_jobs
              /\ at[r] = "closed" => Positions(r, "event", "error") = {Len(trace[r])}
        /\ at[r] = "closed" => Terminals(r) = {Len(trace[r])}
        /\ at[r] # "closed" => Terminals(r) = {}

C27_Witness ==
    /\ 1 \in DOMAIN requests
    /\ requests[1].endpoint = "run-workflow"
    /\ at[1] = "closed"
    /\ Positions(1, "event", "token") = {1, 2}
    /\ Positions(1, "raise", "generator") = {3}
    /\ Positions(1, "event", "error") = {4}
    /\ requests[1].job_id \notin DOMAIN db_jobs

\* C28: in edit_document a failure of the model stream gives an error event and
\* no done event, and the request makes no store call, so that the stored
\* content and docx stay as they were; after a complete stream the done event is
\* sent whether or not the store calls failed; an edit of a job that does not
\* exist makes no store call and ends with done.
C28_EditFailures ==
    \A r \in DOMAIN requests :
        /\ Positions(r, "raise", "generator") # {} =>
              /\ Positions(r, "event", "done") = {}
              /\ StoreCalls(r) = {}
              /\ at[r] = "closed" => Terminals(r) = {Len(trace[r])}
        /\ (\A q \in DOMAIN requests : StoreCalls(q) = {}) =>
              /\ "job1" \in DOMAIN db_jobs
              /\ db_jobs = StoredJobs(db_jobs["job1"].workflow_id)
              /\ docx_files = StoredDocx(db_jobs["job1"].workflow_id)
        /\ (at[r] = "closed" /\ Positions(r, "raise", "generator") = {}) =>
              /\ Positions(r, "event", "done") = {Len(trace[r])}
              /\ Positions(r, "event", "error") = {}
        /\ requests[r].job_id \notin DOMAIN db_jobs => StoreCalls(r) = {}

C28_Witness ==
    /\ 2 \in DOMAIN requests
    /\ at[1] = "closed" /\ at[2] = "closed"
    /\ Positions(1, "call", "update_job_content") # {}
    /\ Positions(1, "raise", "generate_docx") # {}
    /\ Positions(1, "event", "done") = {Len(trace[1])}
    /\ requests[2].job_id = "nojob"
    /\ StoreCalls(2) = {}
    /\ Positions(2, "event", "token") # {}
    /\ Positions(2, "event", "done") = {Len(trace[2])}

====
